---- MODULE Spec2Model ----
(***************************************************************************)
(* MemKappa, the config-driven hybrid vector/graph memory engine of        *)
(* src/kappa/src/kappa/memkappa.py, as a state machine.                    *)
(*                                                                         *)
(* Python strings that the code splits, joins or tests for emptiness       *)
(* (dot paths, payload keys, payload values, node ids, the text blob) are  *)
(* sequences of characters; names that only come from the YAML config and  *)
(* are never taken apart (aliases, attribute names, labels, ingestor       *)
(* names) are TLA+ strings.                                                *)
(***************************************************************************)
EXTENDS Integers, Sequences, FiniteSets, TLC

(***************************************************************************)
(* Python values found in a JSON payload.  k is the dynamic type:          *)
(*   "none"  None                                                          *)
(*   "str"   a string, s its characters                                    *)
(*   "list"  a list of strings, l its items                                *)
(*   "map"   a dict, m its items <<key, value>> in insertion order         *)
(***************************************************************************)
None == [k |-> "none", s |-> <<>>, l |-> <<>>, m |-> <<>>]

Str(s) == [k |-> "str", s |-> s, l |-> <<>>, m |-> <<>>]

Lst(l) == [k |-> "list", s |-> <<>>, l |-> l, m |-> <<>>]

Map(m) == [k |-> "map", s |-> <<>>, l |-> <<>>, m |-> m]

\* Python truthiness: None, "", [] and {} are falsy.
Truthy(v) ==
    CASE v.k = "none" -> FALSE
      [] v.k = "str"  -> v.s # <<>>
      [] v.k = "list" -> v.l # <<>>
      [] OTHER        -> v.m # <<>>

\* Only strings are hashable among the non-None values (list and dict are not).
Hashable(v) == v.k \in {"none", "str"}

\* dict.get(key): the value stored under key, None when the key is missing.
RECURSIVE DictGet(_, _)
DictGet(m, key) ==
    IF m = <<>> THEN None
    ELSE IF m[1][1] = key THEN m[1][2]
    ELSE DictGet(Tail(m), key)

\* str.split("."): the segments between the dots ("" splits to [""]).
RECURSIVE SplitFrom(_, _)
SplitFrom(s, cur) ==
    IF s = <<>> THEN <<cur>>
    ELSE IF Head(s) = "." THEN <<cur>> \o SplitFrom(Tail(s), <<>>)
    ELSE SplitFrom(Tail(s), Append(cur, Head(s)))

Split(s) == SplitFrom(s, <<>>)

\* The loop of _extract_value over the path's parts.
RECURSIVE Walk(_, _)
Walk(current, parts) ==
    IF parts = <<>> THEN current
    ELSE IF current.k = "none" THEN None
    ELSE IF current.k = "map" THEN Walk(DictGet(current.m, Head(parts)), Tail(parts))
    ELSE None

\* A slip: the "if not path" test is left out, so an empty path is split into
\* one empty segment and looked up.
_extract_value_Unguarded(payload, path) ==
    IF path.k # "str" THEN None
    ELSE Walk(payload, Split(path.s))

\* MemKappa._extract_value: a falsy path gives None; path.split raises on a
\* path that is not a string, which the except turns into None.
_extract_value(payload, path) ==
    IF ~Truthy(path) THEN None
    ELSE IF path.k # "str" THEN None
    ELSE Walk(payload, Split(path.s))

\* sep.join(chunks)
RECURSIVE Join(_, _)
Join(chunks, sep) ==
    IF chunks = <<>> THEN <<>>
    ELSE IF Len(chunks) = 1 THEN chunks[1]
    ELSE chunks[1] \o sep \o Join(Tail(chunks), sep)

Quote(s) == <<"\"">> \o s \o <<"\"">>

RECURSIVE QuoteAll(_)
QuoteAll(l) == IF l = <<>> THEN <<>> ELSE <<Quote(Head(l))>> \o QuoteAll(Tail(l))

\* json.dumps of a string, a list of strings, or a dict (items in insertion order).
RECURSIVE JsonDumps(_)
RECURSIVE JsonItems(_)
JsonItems(m) ==
    IF m = <<>> THEN <<>>
    ELSE <<Quote(m[1][1]) \o <<":", " ">> \o JsonDumps(m[1][2])>> \o JsonItems(Tail(m))

JsonDumps(v) ==
    CASE v.k = "none" -> <<"n", "u", "l", "l">>
      [] v.k = "str"  -> Quote(v.s)
      [] v.k = "list" -> <<"[">> \o Join(QuoteAll(v.l), <<",", " ">>) \o <<"]">>
      [] OTHER        -> <<"{">> \o Join(JsonItems(v.m), <<",", " ">>) \o <<"}">>

\* The chunk _build_text appends for a non-None value.
Chunk(value) ==
    IF value.k \in {"map", "list"} THEN JsonDumps(value) ELSE value.s

RECURSIVE TextChunks(_, _)
TextChunks(fields, payload) ==
    IF fields = <<>> THEN <<>>
    ELSE LET value == _extract_value(payload, Head(fields))
             rest == TextChunks(Tail(fields), payload)
         IN IF value.k = "none" THEN rest ELSE <<Chunk(value)>> \o rest

\* A slip: a field that resolves to None is not skipped, and str(None) joins
\* the text.
_build_text_KeepNone(fields, payload) ==
    Join([i \in 1..Len(fields) |->
             LET value == _extract_value(payload, fields[i])
             IN IF value.k = "none" THEN <<"N", "o", "n", "e">> ELSE Chunk(value)],
         <<"\n">>)

\* MemKappa._build_text
_build_text(fields, payload) ==
    LET chunks == TextChunks(fields, payload)
    IN IF chunks # <<>> THEN Join(chunks, <<"\n">>) ELSE <<>>

(***************************************************************************)
(* Dicts keyed by config names (alias -> node id, metadata key -> value):  *)
(* sequences of <<key, value>> in insertion order, as Python dicts are.    *)
(***************************************************************************)
RECURSIVE HasKey(_, _)
HasKey(d, key) ==
    IF d = <<>> THEN FALSE
    ELSE IF d[1][1] = key THEN TRUE
    ELSE HasKey(Tail(d), key)

RECURSIVE Lookup(_, _)
Lookup(d, key) ==
    IF d[1][1] = key THEN d[1][2] ELSE Lookup(Tail(d), key)

\* d[key] = value: replaces the value in place, or appends a new item.
DictSet(d, key, value) ==
    IF HasKey(d, key)
    THEN [i \in 1..Len(d) |-> IF d[i][1] = key THEN <<key, value>> ELSE d[i]]
    ELSE Append(d, <<key, value>>)

DictValues(d) == {d[i][2] : i \in 1..Len(d)}

\* json.dumps of the alias -> node id dict: one item per entry, in order.
DumpsGraphNodes(d) == [i \in 1..Len(d) |-> [key |-> d[i][1], value |-> d[i][2]]]

\* json.loads of that text: the dict rebuilt item by item.
RECURSIVE LoadsGraphNodes(_)
LoadsGraphNodes(text) ==
    IF text = <<>> THEN <<>>
    ELSE DictSet(LoadsGraphNodes(SubSeq(text, 1, Len(text) - 1)),
                 text[Len(text)].key, text[Len(text)].value)

RECURSIVE MetadataItems(_, _)
MetadataItems(mapping, payload) ==
    IF mapping = <<>> THEN <<>>
    ELSE LET value == _extract_value(payload, mapping[1][2])
             rest == MetadataItems(Tail(mapping), payload)
         IN IF value.k # "none" THEN <<<<mapping[1][1], value>>>> \o rest ELSE rest

\* The one namespace this engine was opened on.
Namespace == "semantic"

\* MemKappa._build_metadata: the non-None fields, then the namespace.
_build_metadata(mapping, payload) ==
    [fields |-> MetadataItems(mapping, payload),
     namespace |-> Namespace,
     graph_nodes |-> <<>>]

(***************************************************************************)
(* The networkx DiGraph: nodes maps a node id to its attribute dict (a     *)
(* function from attribute names to values); edges holds one entry per     *)
(* ordered pair (s, t), in insertion order, with its attribute "label".    *)
(***************************************************************************)
NoAttrs == [a \in {} |-> None]

EmptyGraph == [nodes |-> [n \in {} |-> NoAttrs], edges |-> <<>>]

has_node(G, n) == n \in DOMAIN G.nodes

\* A slip: the node's attribute dict is replaced instead of updated.
Update_Replace(old, new) == new

\* dict.update: the new attributes win, the others stay.
Update(old, new) ==
    [a \in DOMAIN old \cup DOMAIN new |-> IF a \in DOMAIN new THEN new[a] ELSE old[a]]

\* DiGraph.add_node(n, **attrs): creates the node or updates its attributes.
add_node(G, n, attrs) ==
    [G EXCEPT !.nodes =
        [x \in DOMAIN G.nodes \cup {n} |->
            IF x # n THEN G.nodes[x]
            ELSE IF has_node(G, n) THEN Update(G.nodes[n], attrs)
            ELSE attrs]]

has_edge(G, s, t) == \E i \in 1..Len(G.edges) : G.edges[i].s = s /\ G.edges[i].t = t

\* A slip: the graph is a MultiDiGraph, and every call stores one more edge.
add_edge_Multi(G, s, t, label) ==
    LET G1 == IF has_node(G, s) THEN G ELSE add_node(G, s, NoAttrs)
        G2 == IF has_node(G1, t) THEN G1 ELSE add_node(G1, t, NoAttrs)
    IN [G2 EXCEPT !.edges = Append(G.edges, [s |-> s, t |-> t, label |-> label])]

\* DiGraph.add_edge(s, t, label=label): creates missing endpoints; a DiGraph
\* holds one edge per ordered pair, whose attributes the call updates.
add_edge(G, s, t, label) ==
    LET G1 == IF has_node(G, s) THEN G ELSE add_node(G, s, NoAttrs)
        G2 == IF has_node(G1, t) THEN G1 ELSE add_node(G1, t, NoAttrs)
    IN [G2 EXCEPT !.edges =
           IF has_edge(G, s, t)
           THEN [i \in 1..Len(G.edges) |->
                    IF G.edges[i].s = s /\ G.edges[i].t = t
                    THEN [G.edges[i] EXCEPT !.label = label]
                    ELSE G.edges[i]]
           ELSE Append(G.edges, [s |-> s, t |-> t, label |-> label])]

(***************************************************************************)
(* The YAML config: the ingestor specs this engine was constructed with.   *)
(* An edge endpoint is given by alias ("source"/"target"), by a dot path   *)
(* to ids of existing nodes ("source_key"/"target_key"), or not at all.    *)
(***************************************************************************)
Alias(a) == [kind |-> "alias", alias |-> a, key |-> None]

Key(path) == [kind |-> "key", alias |-> "", key |-> Str(path)]

api_doc ==
    [text_fields |-> <<Str(<<"e", ".", "n">>), Str(<<"e", ".", "d">>)>>,
     metadata |-> << <<"tool", Str(<<"e", ".", "n">>)>> >>,
     nodes |-> << [id |-> "tool", key |-> Str(<<"e", ".", "n">>),
                   has_type |-> TRUE, type |-> "tool",
                   attributes |-> << <<"desc", Str(<<"e", ".", "d">>)>> >>] >>,
     edges |-> << [has_label |-> TRUE, label |-> "HAS_VARIANT",
                   source |-> Key(<<"p">>), target |-> Alias("tool")] >>]

link ==
    [text_fields |-> <<>>,
     metadata |-> <<>>,
     nodes |-> << [id |-> "src", key |-> Str(<<"s">>),
                   has_type |-> TRUE, type |-> "tool", attributes |-> <<>>],
                  [id |-> "dst", key |-> Str(<<"t">>),
                   has_type |-> FALSE, type |-> "", attributes |-> <<>>] >>,
     edges |-> << [has_label |-> TRUE, label |-> "USES",
                   source |-> Alias("src"), target |-> Alias("dst")] >>]

relate ==
    [text_fields |-> <<>>,
     metadata |-> <<>>,
     nodes |-> <<>>,
     edges |-> << [has_label |-> FALSE, label |-> "",
                   source |-> Key(<<"s">>), target |-> Key(<<"t">>)] >>]

chain ==
    [text_fields |-> <<>>,
     metadata |-> <<>>,
     nodes |-> << [id |-> "src", key |-> Str(<<"s">>),
                   has_type |-> TRUE, type |-> "tool", attributes |-> <<>>],
                  [id |-> "dst", key |-> Str(<<"t">>),
                   has_type |-> FALSE, type |-> "", attributes |-> <<>>] >>,
     edges |-> << [has_label |-> TRUE, label |-> "USES",
                   source |-> Alias("src"), target |-> Alias("dst")],
                  [has_label |-> FALSE, label |-> "",
                   source |-> Key(<<"p">>), target |-> Alias("dst")] >>]

\* self.ingestor_specs
ingestor_specs ==
    << <<"api_doc", api_doc>>, <<"link", link>>, <<"relate", relate>>, <<"chain", chain>> >>

(***************************************************************************)
(* MemKappa._update_graph, up to the save: the node loop, then the edge    *)
(* loop, on the in-memory graph.  The loop state is the graph, the dict    *)
(* new_node_ids_by_alias, and whether add_node raised (TypeError on an     *)
(* unhashable id), which ends the call with the graph as mutated so far.   *)
(***************************************************************************)
RECURSIVE AttributeItems(_, _)
AttributeItems(attributes, payload) ==
    IF attributes = <<>> THEN <<>>
    ELSE LET value == _extract_value(payload, attributes[1][2])
             rest == AttributeItems(Tail(attributes), payload)
         IN IF value.k # "none" THEN <<<<attributes[1][1], value>>>> \o rest ELSE rest

\* The attributes dict of one NodeSpec: the non-None attributes, then "type".
NodeAttributes(node_spec, payload) ==
    LET items == AttributeItems(node_spec.attributes, payload)
        type == IF node_spec.has_type THEN node_spec.type ELSE node_spec.id
        names == {items[i][1] : i \in 1..Len(items)} \cup {"type"}
    IN [a \in names |-> IF a = "type" THEN Str(<<type>>) ELSE Lookup(items, a)]

RECURSIVE NodeLoop(_, _, _)
NodeLoop(node_specs, payload, st) ==
    IF node_specs = <<>> \/ st.raised THEN st
    ELSE LET node_spec == Head(node_specs)
             alias == node_spec.id
             node_id == _extract_value(payload, node_spec.key)
         IN IF alias = "" \/ ~Truthy(node_id)
            THEN NodeLoop(Tail(node_specs), payload, st)
            ELSE IF ~Hashable(node_id)
            THEN [st EXCEPT !.raised = TRUE]
            ELSE NodeLoop(Tail(node_specs), payload,
                    [graph |-> add_node(st.graph, node_id.s, NodeAttributes(node_spec, payload)),
                     aliases |-> DictSet(st.aliases, alias, node_id.s),
                     raised |-> FALSE])

\* A slip: ids resolved through source_key/target_key are taken as they are,
\* without the has_node test.
EndpointIds_Unfiltered(endpoint, payload, G, aliases) ==
    IF endpoint.kind = "alias"
    THEN IF HasKey(aliases, endpoint.alias) THEN <<Lookup(aliases, endpoint.alias)>> ELSE <<>>
    ELSE IF endpoint.kind = "key"
    THEN LET val == _extract_value(payload, endpoint.key)
         IN IF val.k = "list" THEN val.l
            ELSE IF Truthy(val) /\ Hashable(val) THEN <<val.s>>
            ELSE <<>>
    ELSE <<>>

\* The ids one endpoint of an EdgeSpec resolves to.
EndpointIds(endpoint, payload, G, aliases) ==
    IF endpoint.kind = "alias"
    THEN IF HasKey(aliases, endpoint.alias) THEN <<Lookup(aliases, endpoint.alias)>> ELSE <<>>
    ELSE IF endpoint.kind = "key"
    THEN LET val == _extract_value(payload, endpoint.key)
         IN IF val.k = "list" THEN SelectSeq(val.l, LAMBDA x : has_node(G, x))
            ELSE IF Truthy(val) /\ Hashable(val) /\ has_node(G, val.s) THEN <<val.s>>
            ELSE <<>>
    ELSE <<>>

\* A slip: the sources and targets are paired off (zip) instead of crossed.
RECURSIVE AddEdges_Zipped(_, _, _, _, _)
AddEdges_Zipped(G, sources, targets, label, j) ==
    IF sources = <<>> \/ j > Len(targets) THEN G
    ELSE AddEdges_Zipped(add_edge(G, Head(sources), targets[j], label),
                         Tail(sources), targets, label, j + 1)

\* for s_id in source_ids_final: for t_id in target_ids_final: add_edge
RECURSIVE AddEdges(_, _, _, _, _)
AddEdges(G, sources, targets, label, j) ==
    IF sources = <<>> THEN G
    ELSE IF j > Len(targets) THEN AddEdges(G, Tail(sources), targets, label, 1)
    ELSE LET s_id == Head(sources)
             t_id == targets[j]
         IN AddEdges(IF s_id # <<>> /\ t_id # <<>> THEN add_edge(G, s_id, t_id, label) ELSE G,
                     sources, targets, label, j + 1)

\* A slip: an EdgeSpec with a missing side ends the loop (break for continue).
RECURSIVE EdgeLoop_Break(_, _, _, _)
EdgeLoop_Break(edge_specs, payload, G, aliases) ==
    IF edge_specs = <<>> THEN G
    ELSE LET edge_spec == Head(edge_specs)
             label == IF edge_spec.has_label THEN edge_spec.label ELSE "RELATED_TO"
             source_ids_final == EndpointIds(edge_spec.source, payload, G, aliases)
             target_ids_final == EndpointIds(edge_spec.target, payload, G, aliases)
         IN IF source_ids_final = <<>> \/ target_ids_final = <<>>
            THEN G
            ELSE EdgeLoop_Break(Tail(edge_specs), payload,
                                AddEdges(G, source_ids_final, target_ids_final, label, 1), aliases)

RECURSIVE EdgeLoop(_, _, _, _)
EdgeLoop(edge_specs, payload, G, aliases) ==
    IF edge_specs = <<>> THEN G
    ELSE LET edge_spec == Head(edge_specs)
             label == IF edge_spec.has_label THEN edge_spec.label ELSE "RELATED_TO"
             source_ids_final == EndpointIds(edge_spec.source, payload, G, aliases)
             target_ids_final == EndpointIds(edge_spec.target, payload, G, aliases)
         IN IF source_ids_final = <<>> \/ target_ids_final = <<>>
            THEN EdgeLoop(Tail(edge_specs), payload, G, aliases)
            ELSE EdgeLoop(Tail(edge_specs), payload,
                          AddEdges(G, source_ids_final, target_ids_final, label, 1), aliases)

\* A slip: the loops run on a copy of the graph, and self.graph keeps the old one.
MutateGraph_OnCopy(graph_spec, payload, G) ==
    [NodeLoop(graph_spec.nodes, payload, [graph |-> G, aliases |-> <<>>, raised |-> FALSE])
        EXCEPT !.graph = G]

\* The in-memory part of _update_graph (lines 246-310).
MutateGraph(graph_spec, payload, G) ==
    LET st == NodeLoop(graph_spec.nodes, payload,
                       [graph |-> G, aliases |-> <<>>, raised |-> FALSE])
    IN IF st.raised THEN st
       ELSE [st EXCEPT !.graph = EdgeLoop(graph_spec.edges, payload, st.graph, st.aliases)]

(***************************************************************************)
(* Reading: similarity, graph context, node lookup, the vector query.      *)
(***************************************************************************)
\* Embedding vectors: unit vectors at 0, 90 and 180 degrees.
Vecs == {0, 1, 2}

\* Chroma's cosine distance between two of them, in hundredths (0, 100, 200).
Distance(v, w) == 100 * (IF v >= w THEN v - w ELSE w - v)

Max(a, b) == IF a >= b THEN a ELSE b

Min(a, b) == IF a <= b THEN a ELSE b

\* A slip: the clamp is left out.
_distance_to_similarity_Unclamped(distance) == 100 - (distance \div 2)

\* A slip: the "1.0 -" is left out, so the score grows with the distance.
_distance_to_similarity_Inverted(distance) == Max(0, Min(100, distance \div 2))

\* MemKappa._distance_to_similarity, distance and similarity in hundredths.
_distance_to_similarity(distance) == Max(0, Min(100, 100 - (distance \div 2)))

\* nodes[n].get("type", "Unknown")
TypeOf(G, n) == IF "type" \in DOMAIN G.nodes[n] THEN G.nodes[n]["type"] ELSE Str(<<"Unknown">>)

MapSeq(seq, Op(_)) == [i \in 1..Len(seq) |-> Op(seq[i])]

\* A slip: the incoming list is read from the successors (adj for pred).
ContextEntry_Successors(G, node_id) ==
    [attributes |-> G.nodes[node_id],
     outgoing |-> MapSeq(SelectSeq(G.edges, LAMBDA e : e.s = node_id),
                         LAMBDA e : [label |-> e.label, target_id |-> e.t,
                                     target_type |-> TypeOf(G, e.t)]),
     incoming |-> MapSeq(SelectSeq(G.edges, LAMBDA e : e.s = node_id),
                         LAMBDA e : [label |-> e.label, source_id |-> e.t,
                                     source_type |-> TypeOf(G, e.t)])]

\* The entry _build_graph_context builds for one node (lines 331-353).
ContextEntry(G, node_id) ==
    [attributes |-> G.nodes[node_id],
     outgoing |-> MapSeq(SelectSeq(G.edges, LAMBDA e : e.s = node_id),
                         LAMBDA e : [label |-> e.label, target_id |-> e.t,
                                     target_type |-> TypeOf(G, e.t)]),
     incoming |-> MapSeq(SelectSeq(G.edges, LAMBDA e : e.t = node_id),
                         LAMBDA e : [label |-> e.label, source_id |-> e.s,
                                     source_type |-> TypeOf(G, e.s)])]

\* A slip: a listed node that is missing from the graph gets an empty entry
\* instead of being left out.
RECURSIVE _build_graph_context_Unchecked(_, _)
_build_graph_context_Unchecked(G, node_refs) ==
    IF node_refs = <<>> THEN <<>>
    ELSE LET entry == IF has_node(G, node_refs[1][2])
                      THEN ContextEntry(G, node_refs[1][2])
                      ELSE [attributes |-> NoAttrs, outgoing |-> <<>>, incoming |-> <<>>]
         IN <<<<node_refs[1][1], entry>>>> \o _build_graph_context_Unchecked(G, Tail(node_refs))

\* MemKappa._build_graph_context: the aliases whose node is in the graph.
RECURSIVE _build_graph_context(_, _)
_build_graph_context(G, node_refs) ==
    IF node_refs = <<>> THEN <<>>
    ELSE LET alias == node_refs[1][1]
             node_id == node_refs[1][2]
             rest == _build_graph_context(G, Tail(node_refs))
         IN IF node_id \in DOMAIN G.nodes
            THEN <<<<alias, ContextEntry(G, node_id)>>>> \o rest
            ELSE rest

\* A slip: the incoming list is read from the successors (adj for pred).
lookup_node_tool_Successors(G, node_id) ==
    IF ~has_node(G, node_id)
    THEN [error |-> "Node not found", node_id |-> node_id]
    ELSE [error |-> "",
          node_id |-> node_id,
          attributes |-> G.nodes[node_id],
          outgoing |-> MapSeq(SelectSeq(G.edges, LAMBDA e : e.s = node_id),
                              LAMBDA e : [label |-> e.label, target_id |-> e.t,
                                          target_type |-> TypeOf(G, e.t)]),
          incoming |-> MapSeq(SelectSeq(G.edges, LAMBDA e : e.s = node_id),
                              LAMBDA e : [label |-> e.label, source_id |-> e.t,
                                          source_type |-> TypeOf(G, e.t)])]

\* A slip: the has_node test is left out, and reading a missing node raises
\* KeyError.
lookup_node_tool_Unguarded(G, node_id) ==
    IF ~has_node(G, node_id)
    THEN [error |-> "KeyError", raised |-> TRUE]
    ELSE [error |-> "", node_id |-> node_id, attributes |-> G.nodes[node_id]]

\* lookup_node_tool (lines 428-457)
lookup_node_tool(G, node_id) ==
    IF ~has_node(G, node_id)
    THEN [error |-> "Node not found", node_id |-> node_id]
    ELSE [error |-> "",
          node_id |-> node_id,
          attributes |-> G.nodes[node_id],
          outgoing |-> MapSeq(SelectSeq(G.edges, LAMBDA e : e.s = node_id),
                              LAMBDA e : [label |-> e.label, target_id |-> e.t,
                                          target_type |-> TypeOf(G, e.t)]),
          incoming |-> MapSeq(SelectSeq(G.edges, LAMBDA e : e.t = node_id),
                              LAMBDA e : [label |-> e.label, source_id |-> e.s,
                                          source_type |-> TypeOf(G, e.s)])]

\* collection.query: the n_results nearest records (fewer when the collection
\* is smaller), nearest first; records at equal distance come in any order.
QueryHits(coll, query_embedding, n_results) ==
    LET count == Len(coll)
        k == Min(n_results, count)
        D(i) == Distance(coll[i].embedding, query_embedding)
    IN {h \in [1..k -> 1..count] :
            /\ \A i, j \in 1..k : i < j => h[i] # h[j] /\ D(h[i]) <= D(h[j])
            /\ \A x \in 1..count :
                   (\A i \in 1..k : h[i] # x) => \A i \in 1..k : D(h[i]) <= D(x)}

\* The payload retrieve appends for one hit (lines 187-213).
Match(G, coll, idx, query_embedding) ==
    LET metadata == coll[idx].metadata
        distance == Distance(coll[idx].embedding, query_embedding)
        graph_nodes == LoadsGraphNodes(metadata.graph_nodes)
    IN [memory_id |-> coll[idx].id,
        metadata |-> metadata,
        graph_context |-> _build_graph_context(G, graph_nodes),
        similarity_score |-> _distance_to_similarity(distance)]

(***************************************************************************)
(* FileVault (kratos/core/middleware/vault.py) with its SQLite backend,    *)
(* the constructor's default.  A file path is a string (a sequence of      *)
(* characters); a location on disk is the sequence of its components below *)
(* the workspace directory.  Session ids and namespaces are strings        *)
(* without a slash.                                                        *)
(***************************************************************************)
\* str.split(sep)
RECURSIVE SplitOn(_, _, _)
SplitOn(s, sep, cur) ==
    IF s = <<>> THEN <<cur>>
    ELSE IF Head(s) = sep THEN <<cur>> \o SplitOn(Tail(s), sep, <<>>)
    ELSE SplitOn(Tail(s), sep, Append(cur, Head(s)))

\* str.lstrip("/")
RECURSIVE LStrip(_)
LStrip(s) == IF s # <<>> /\ Head(s) = "/" THEN LStrip(Tail(s)) ELSE s

\* os.path.normpath (POSIX) of a path without ".." components: empty and "."
\* components go, one leading slash stays, exactly two leading slashes stay
\* two, and an empty result is ".".
normpath(path) ==
    IF path = <<>> THEN <<".">>
    ELSE LET initial_slashes ==
                 IF Head(path) # "/" THEN <<>>
                 ELSE IF Len(path) >= 2 /\ path[2] = "/" /\ ~(Len(path) >= 3 /\ path[3] = "/")
                 THEN <<"/", "/">>
                 ELSE <<"/">>
             comps == SelectSeq(SplitOn(path, "/", <<>>), LAMBDA c : c # <<>> /\ c # <<".">>)
             result == initial_slashes \o Join(comps, <<"/">>)
         IN IF result = <<>> THEN <<".">> ELSE result

\* ".." in path or path.startswith("~")
Traversal(path) ==
    \/ \E i \in 1..(Len(path) - 1) : path[i] = "." /\ path[i + 1] = "."
    \/ (path # <<>> /\ Head(path) = "~")

\* FileVault._validate_path: raises ValueError on a traversal attempt, else
\* the normalised path with backslashes turned and a leading slash.
_validate_path(path) ==
    IF Traversal(path) THEN [ok |-> FALSE, path |-> <<>>]
    ELSE LET n == normpath(path)
             normalized == [i \in 1..Len(n) |-> IF n[i] = "\\" THEN "/" ELSE n[i]]
         IN [ok |-> TRUE,
             path |-> IF Head(normalized) = "/" THEN normalized ELSE <<"/">> \o normalized]

\* The components pathlib keeps of a relative path: the non-empty ones other
\* than ".".
Components(rel) == SelectSeq(SplitOn(rel, "/", <<>>), LAMBDA c : c # <<>> /\ c # <<".">>)

\* FileVault._resolve_storage_path
_resolve_storage_path(file_path, namespace, session_id) ==
    LET rel == LStrip(file_path)
    IN IF Truthy(session_id)
       THEN <<<<"sessions">>, session_id.s>> \o Components(rel)
       ELSE <<<<"persistent">>, namespace.s>> \o Components(rel)

\* FileVault._generate_file_id: the key that is hashed stands for its hash.
_generate_file_id(file_path, namespace, session_id) ==
    namespace.s \o <<":">>
        \o (IF Truthy(session_id) THEN session_id.s ELSE <<"persistent">>)
        \o <<":">> \o file_path

\* f with f[k] = v
Put(f, k, v) == [x \in DOMAIN f \cup {k} |-> IF x = k THEN v ELSE f[x]]

\* The proper prefixes of a location: its parent directories.
Parents(loc) == {SubSeq(loc, 1, n) : n \in 0..(Len(loc) - 1)}

\* FileVault.__init__ on an empty workspace directory.
NewVault ==
    [dirs |-> {<<>>, <<<<"sessions">>>>, <<<<"persistent">>>>, <<<<".metadata">>>>,
               <<<<".archive">>>>},
     disk |-> [loc \in {} |-> <<>>],
     files |-> [id \in {} |-> <<>>],
     sessions |-> [id \in {} |-> <<>>],
     calls |-> 0]

\* FileVault._store_metadata_sqlite: INSERT OR REPLACE of the files row, and
\* the upsert of the session's row when a session id is given.
_store_metadata_sqlite(V, file_id, file_path, namespace, session_id, storage_path, content_hash, size_bytes) ==
    [V EXCEPT
        !.files = Put(V.files, file_id,
                      [file_id |-> file_id, file_path |-> file_path, namespace |-> namespace,
                       session_id |-> session_id, storage_path |-> storage_path,
                       content_hash |-> content_hash, size_bytes |-> size_bytes,
                       access_count |-> 0]),
        !.sessions =
            IF ~Truthy(session_id) THEN V.sessions
            ELSE IF session_id.s \in DOMAIN V.sessions
            THEN [V.sessions EXCEPT ![session_id.s].file_count = @ + 1,
                                    ![session_id.s].total_bytes = @ + size_bytes]
            ELSE Put(V.sessions, session_id.s,
                     [namespace |-> namespace, file_count |-> 1, total_bytes |-> size_bytes])]

\* Path.write_text(content, encoding="utf-8") on POSIX: text mode turns "\n"
\* into os.linesep, which is "\n"; every other character is written as it is.
write_text(content) == content

\* Path.read_text(encoding="utf-8"): text mode with universal newlines turns
\* "\r\n" and a lone "\r" into "\n".
RECURSIVE read_text(_)
read_text(stored) ==
    IF stored = <<>> THEN <<>>
    ELSE IF Head(stored) = "\r"
    THEN <<"\n">> \o read_text(IF Len(stored) >= 2 /\ stored[2] = "\n"
                               THEN SubSeq(stored, 3, Len(stored))
                               ELSE Tail(stored))
    ELSE <<Head(stored)>> \o read_text(Tail(stored))

\* FileVault.write_file: the vault afterwards and what the call returns.
write_file(V, file_path, content, namespace, session_id) ==
    LET valid == _validate_path(file_path)
        storage_path == _resolve_storage_path(valid.path, namespace, session_id)
        made == [V EXCEPT !.dirs = V.dirs \cup Parents(storage_path)]
        file_id == _generate_file_id(valid.path, namespace, session_id)
    IN IF ~valid.ok
       THEN [vault |-> V, result |-> "raise", exception |-> "ValueError", file_id |-> <<>>]
       ELSE IF Parents(storage_path) \cap DOMAIN V.disk # {}
       THEN [vault |-> V, result |-> "raise", exception |-> "NotADirectoryError",
             file_id |-> <<>>]
       ELSE IF storage_path \in made.dirs
       THEN [vault |-> made, result |-> "raise", exception |-> "IsADirectoryError",
             file_id |-> <<>>]
       ELSE [vault |-> _store_metadata_sqlite(
                           [made EXCEPT !.disk = Put(made.disk, storage_path,
                                                     write_text(content))],
                           file_id, valid.path, namespace, session_id, storage_path,
                           content, Len(content)),
             result |-> "file_id", exception |-> "", file_id |-> file_id]

\* FileVault.read_file (update_access=True, is_shared=False, the defaults).
read_file(V, file_path, namespace, session_id) ==
    LET valid == _validate_path(file_path)
        storage_path == _resolve_storage_path(valid.path, namespace, session_id)
        file_id == _generate_file_id(valid.path, namespace, session_id)
    IN IF ~valid.ok
       THEN [vault |-> V, result |-> "raise", exception |-> "ValueError", content |-> <<>>]
       ELSE IF storage_path \in V.dirs
       THEN [vault |-> V, result |-> "raise", exception |-> "IsADirectoryError",
             content |-> <<>>]
       ELSE IF storage_path \notin DOMAIN V.disk
       THEN [vault |-> V, result |-> "raise", exception |-> "FileNotFoundError",
             content |-> <<>>]
       ELSE [vault |-> IF file_id \in DOMAIN V.files
                       THEN [V EXCEPT !.files[file_id].access_count = @ + 1]
                       ELSE V,
             result |-> "content", exception |-> "",
             content |-> read_text(V.disk[storage_path])]

(***************************************************************************)
(* ContextVaultMiddleware.before_agent (kratos/core/middleware/            *)
(* vault_middleware.py).  An agent state is the set of its keys and the    *)
(* value under "session_id" (None when the key is missing).                *)
(***************************************************************************)
\* ContextVaultMiddleware.__init__: the assignment of self.session_id is
\* commented out, so a new instance has no such attribute.
NewMiddleware == [has_session_id |-> FALSE, session_id |-> None, runs |-> 0]

\* str(time.time() * 1000) at the n-th agent run: a different string each time.
TimeStamp(n) == Str(<< <<"t1", "t2", "t3", "t4", "t5", "t6">>[n] >>)

\* The directories of the context_data_loc list.
AssetTypes == {"code", "charts", "reports", "data", "analysis", "tool_results"}

\* FileVault.get_storage_dir_path(asset_type, namespace, session_id): the
\* parent directories of the location are created (the workspace directory's
\* own path holds no "..", so _validate_path passes).
get_storage_dir_path(V, asset_type, namespace, session_id) ==
    LET storage_path == IF Truthy(session_id)
                        THEN <<<<"sessions">>, session_id.s, <<asset_type>>>>
                        ELSE <<<<"persistent">>, namespace.s, <<asset_type>>>>
    IN [V EXCEPT !.dirs = V.dirs \cup Parents(storage_path)]

\* The state keys before_agent initialises when they are missing.
InitialisedKeys == {"namespace", "files_created", "files_read", "total_bytes_written"}

\* ContextVaultMiddleware.before_agent: the instance and the vault afterwards,
\* and the result: None ("none"), the updates dict ("updates", with its keys)
\* or an exception.  Reading self.session_id on an instance that never
\* assigned it raises AttributeError.
before_agent(M, V, state) ==
    LET missing == InitialisedKeys \ state.keys
        new_session == "session_id" \notin state.keys \/ state.session_id = None
        session_id == TimeStamp(M.runs + 1)
        M1 == IF new_session
              THEN [M EXCEPT !.has_session_id = TRUE, !.session_id = session_id]
              ELSE M
        updates == missing \cup (IF new_session THEN {"session_id"} ELSE {})
        with_loc == "context_data_loc" \notin state.keys
    IN IF with_loc /\ ~M1.has_session_id
       THEN [middleware |-> M1, vault |-> V, result |-> "raise",
             exception |-> "AttributeError", updates |-> {}]
       ELSE IF with_loc
       THEN [middleware |-> M1,
             vault |-> [V EXCEPT !.dirs = UNION {
                           get_storage_dir_path(V, a, Str(<<"default">>), M1.session_id).dirs :
                               a \in AssetTypes}],
             result |-> "updates", exception |-> "",
             updates |-> updates \cup {"context_data_loc"}]
       ELSE [middleware |-> M1, vault |-> V,
             result |-> IF updates # {} THEN "updates" ELSE "none", exception |-> "",
             updates |-> updates]

(***************************************************************************)
\* Ingest calls made in one run by a single caller.
MaxCalls == 3

\* Ingest calls made in one run by the concurrent callers together.
MaxConcurrentCalls == 2

\* Callers that may be inside ingest at the same time (tool calls of one agent
\* run in parallel threads).
Threads == {1, 2}

PA == Map(<< <<<<"e">>, Map(<< <<<<"n">>, Str(<<"a">>)>>, <<<<"d">>, Str(<<"x">>)>> >>)>> >>)

PA2 == Map(<< <<<<"e">>, Map(<< <<<<"n">>, Str(<<"a">>)>> >>)>>, <<<<"p">>, None>> >>)

PB == Map(<< <<<<"e">>, Map(<< <<<<"n">>, Str(<<"b">>)>>, <<<<"d">>, Str(<<"x">>)>> >>)>>,
             <<<<"p">>, Str(<<"a">>)>> >>)

PE == Map(<< <<<<"e">>, Map(<< <<<<"d">>, Str(<<>>)>> >>)>> >>)

PL == Map(<< <<<<"s">>, Str(<<"a">>)>>, <<<<"t">>, Str(<<"b">>)>> >>)

PL0 == Map(<< <<<<"s">>, Str(<<>>)>>, <<<<"t">>, Str(<<"b">>)>> >>)

PF == Map(<< <<<<"s">>, Lst(<< <<"a">>, <<"c">> >>)>>, <<<<"t">>, Str(<<"b">>)>> >>)

PC == Map(<< <<<<"s">>, Str(<<"c">>)>> >>)

PFan == Map(<< <<<<"t">>, Str(<<"x">>)>>,
               <<<<"p">>, Lst(<< <<"a">>, <<"b">>, <<"c">> >>)>> >>)

PR == Map(<< <<<<"s">>, Str(<<"b">>)>>, <<<<"t">>, Str(<<"a">>)>> >>)

PCol == Map(<< <<<<"s">>, Str(<<"a">>)>>, <<<<"t">>, Str(<<"b">>)>>,
               <<<<"p">>, Str(<<"a">>)>> >>)

PDl == Map(<< <<<<"e">>, Map(<< <<<<"n">>, Str(<<"a">>)>>,
                                <<<<"d">>, Lst(<< <<"x">>, <<"y">> >>)>> >>)>> >>)

PDm == Map(<< <<<<"e">>, Map(<< <<<<"d">>, Map(<< <<<<"k">>, Str(<<"x">>)>> >>)>> >>)>> >>)

\* The (ingestor, payload) pairs callers pass to ingest.
Requests ==
    { [ingestor |-> "api_doc", payload |-> PA],
      [ingestor |-> "api_doc", payload |-> PA2],
      [ingestor |-> "api_doc", payload |-> PB],
      [ingestor |-> "api_doc", payload |-> PE],
      [ingestor |-> "link", payload |-> PL],
      [ingestor |-> "link", payload |-> PL0],
      [ingestor |-> "relate", payload |-> PL],
      [ingestor |-> "relate", payload |-> PF],
      [ingestor |-> "changelog", payload |-> PL] }

\* The requests of the concurrent workload.
ConcurrentRequests ==
    { [ingestor |-> "api_doc", payload |-> PA],
      [ingestor |-> "api_doc", payload |-> PB],
      [ingestor |-> "link", payload |-> PL],
      [ingestor |-> "relate", payload |-> PL] }

\* The query texts and n_results callers pass to retrieve.
Queries == { <<"a", "\n", "x">>, <<"b", "\n", "x">> }

NResults == {1, 2}

\* The node ids callers pass to lookup.
LookupIds == { <<"a">>, <<"b">>, <<"c">> }

(***************************************************************************)
(* State.                                                                  *)
(*   graph       self.graph, the in-memory DiGraph                         *)
(*   file        the namespace's .graphml file                             *)
(*   collection  the Chroma collection: records in insertion order         *)
(*   uuids       how many uuid4 values have been drawn                     *)
(*   pc, frame   per caller: where it is inside ingest, and its locals;    *)
(*               frame.saved and frame.persisted record that the call's    *)
(*               _save_graph has returned and the node ids it wrote        *)
(*   calls       ingest calls started                                      *)
(*   returned    the memory ids ingest has returned, each with the text    *)
(*               blob of its call                                          *)
(*   out         what the last step returned to its caller, if it did      *)
(*   callers     the threads that call ingest in this run                  *)
(*   requests    the (ingestor, payload) pairs they pass                   *)
(*   reader      a second engine opened on the same store and namespace:   *)
(*               whether it has been constructed, and the graph it holds   *)
(*   vault       the FileVault workspace: its directories and files on     *)
(*               disk, the files and sessions tables, and the calls made   *)
(*   middleware  the ContextVaultMiddleware instance: whether it has the   *)
(*               attribute session_id and its value, and the agent runs    *)
(*               started                                                   *)
(***************************************************************************)
VARIABLES graph, file, collection, uuids, pc, frame, calls, returned, out, callers, requests,
          reader, vault, middleware

vars == <<graph, file, collection, uuids, pc, frame, calls, returned, out, callers, requests,
          reader, vault, middleware>>

NoFrame ==
    [ingestor |-> "", payload |-> None, text_blob |-> <<>>,
     metadata |-> _build_metadata(<<>>, None), graph_nodes |-> <<>>, memory_id |-> 0,
     saved |-> FALSE, persisted |-> {}]

NoOut == [op |-> "none"]

\* The .graphml file: absent, opened for writing and not yet written whole
\* (truncated or partly written), or holding a whole graph.
NoFile == [st |-> "absent", graph |-> EmptyGraph]

PartialFile == [st |-> "partial", graph |-> EmptyGraph]

WholeFile(G) == [st |-> "whole", graph |-> G]

\* No second engine yet.
NoReader == [open |-> FALSE, graph |-> EmptyGraph]

\* The engine's own state after MemKappa.__init__ with no store on disk yet,
\* next to an empty vault workspace.
NewEngine ==
    /\ middleware = NewMiddleware
    /\ vault = NewVault
    /\ reader = NoReader
    /\ graph = EmptyGraph
    /\ file = NoFile
    /\ collection = <<>>
    /\ uuids = 0
    /\ pc = [t \in Threads |-> "idle"]
    /\ frame = [t \in Threads |-> NoFrame]
    /\ calls = 0
    /\ returned = {}

\* MemKappa.__init__ with no store on disk yet, and no call made.
Constructed ==
    /\ NewEngine
    /\ out = NoOut

\* One caller at a time, every request.
Init ==
    /\ Constructed
    /\ callers = {1}
    /\ requests = Requests

\* Two callers that may be inside ingest at once.
InitConcurrent ==
    /\ Constructed
    /\ callers = Threads
    /\ requests = ConcurrentRequests

CallBudget == IF Cardinality(callers) > 1 THEN MaxConcurrentCalls ELSE MaxCalls

Raised(t, req, exc) ==
    [op |-> "ingest", thread |-> t, ingestor |-> req.ingestor, payload |-> req.payload,
     result |-> "raise", exception |-> exc]

\* A slip: the generator is reseeded on every call and returns its first value.
uuid4_Reseeded == 0 + 1

\* uuid.uuid4(): a value never drawn before.
uuid4 == uuids + 1

\* ingest, lines 127-138 up to the save: the spec lookup, the text blob and
\* metadata, and the in-memory graph mutation of _update_graph.
IngestBegin(t, req) ==
    /\ pc[t] = "idle"
    /\ calls < CallBudget
    /\ calls' = calls + 1
    /\ IF ~HasKey(ingestor_specs, req.ingestor)
       THEN /\ out' = Raised(t, req, "ValueError")
            /\ UNCHANGED <<middleware, vault, reader, callers, requests, graph, pc, frame>>
       ELSE LET spec == Lookup(ingestor_specs, req.ingestor)
                text_blob == _build_text(spec.text_fields, req.payload)
                metadata == _build_metadata(spec.metadata, req.payload)
                st == MutateGraph(spec, req.payload, graph)
            IN /\ graph' = st.graph
               /\ IF st.raised
                  THEN /\ out' = Raised(t, req, "TypeError")
                       /\ UNCHANGED <<middleware, vault, reader, callers, requests, pc, frame>>
                  ELSE /\ pc' = [pc EXCEPT ![t] = "save"]
                       /\ frame' = [frame EXCEPT ![t] =
                              [ingestor |-> req.ingestor, payload |-> req.payload,
                               text_blob |-> text_blob, metadata |-> metadata,
                               graph_nodes |-> st.aliases, memory_id |-> 0,
                               saved |-> FALSE, persisted |-> {}]]
                       /\ out' = NoOut
    /\ UNCHANGED <<middleware, vault, reader, callers, requests, file, collection, uuids, returned>>

\* A slip: ingest goes on to the vector store without saving the graph.
SaveOpen_Skipped(t) ==
    /\ pc[t] = "save"
    /\ pc' = [pc EXCEPT ![t] = "embed"]
    /\ uuids' = uuids + 1
    /\ frame' = [frame EXCEPT ![t].memory_id = uuids + 1,
                              ![t].metadata.graph_nodes = DumpsGraphNodes(frame[t].graph_nodes)]
    /\ out' = NoOut
    /\ UNCHANGED <<middleware, vault, reader, callers, requests, graph, file, collection, calls, returned>>

\* _save_graph, first half: write_graphml opens the file for writing.
SaveOpen(t) ==
    /\ pc[t] = "save"
    /\ file' = PartialFile
    /\ pc' = [pc EXCEPT ![t] = "write"]
    /\ out' = NoOut
    /\ UNCHANGED <<middleware, vault, reader, callers, requests, graph, collection, uuids, frame, calls, returned>>

\* The earlier evolution of ingest (memcore.py): an empty text blob is
\* embedded and indexed like any other.
AfterGraph_AlwaysEmbed(t) ==
    /\ uuids' = uuids + 1
    /\ out' = NoOut
    /\ pc' = [pc EXCEPT ![t] = "embed"]
    /\ frame' = [frame EXCEPT ![t] =
           [frame[t] EXCEPT !.memory_id = uuid4,
                            !.metadata.graph_nodes = DumpsGraphNodes(frame[t].graph_nodes),
                            !.saved = TRUE,
                            !.persisted = DOMAIN file'.graph.nodes]]

\* ingest, lines 141-148, after _update_graph returned.
AfterGraph(t) ==
    LET f == frame[t]
        memory_id == uuid4
        graph_nodes == f.graph_nodes
    IN /\ uuids' = uuids + 1
       /\ IF f.text_blob = <<>>
          THEN /\ out' = [op |-> "ingest", thread |-> t, ingestor |-> f.ingestor,
                          payload |-> f.payload, result |-> "graph_only_entry",
                          node |-> IF graph_nodes # <<>> THEN graph_nodes[1][2]
                                   ELSE <<"unknown">>]
               /\ pc' = [pc EXCEPT ![t] = "idle"]
               /\ frame' = [frame EXCEPT ![t] = NoFrame]
          ELSE /\ out' = NoOut
               /\ pc' = [pc EXCEPT ![t] = "embed"]
               /\ frame' = [frame EXCEPT ![t] =
                      [f EXCEPT !.memory_id = memory_id,
                                !.metadata.graph_nodes = DumpsGraphNodes(graph_nodes),
                                !.saved = TRUE,
                                !.persisted = DOMAIN file'.graph.nodes]]

\* _save_graph, second half: the whole graph is written and the file closed;
\* _update_graph returns and ingest goes on to the sentinel or the embedding.
SaveWrite(t) ==
    /\ pc[t] = "write"
    /\ file' = WholeFile(graph)
    /\ AfterGraph(t)
    /\ UNCHANGED <<middleware, vault, reader, callers, requests, graph, collection, calls, returned>>

\* write_graphml raises after opening the file (an I/O error, an attribute
\* value GraphML cannot hold): the exception leaves ingest.
SaveFail(t) ==
    /\ pc[t] = "write"
    /\ out' = Raised(t, frame[t], "OSError")
    /\ pc' = [pc EXCEPT ![t] = "idle"]
    /\ frame' = [frame EXCEPT ![t] = NoFrame]
    /\ UNCHANGED <<middleware, vault, reader, callers, requests, graph, file, collection, uuids, calls, returned>>

\* embedding_function.embed_query(text), when it returns: a stub that places a
\* text by its first character, so identical texts get identical vectors and
\* some different texts do too.
embed_query(text) ==
    IF text = <<>> THEN 2
    ELSE IF Head(text) = "a" THEN 0
    ELSE IF Head(text) = "b" THEN 1
    ELSE 2

\* collection.add(ids=[memory_id], embeddings=[embedding], metadatas=[metadata])
CollectionAdd(coll, memory_id, embedding, metadata) ==
    Append(coll, [id |-> memory_id, embedding |-> embedding, metadata |-> metadata])

\* ingest, lines 151-157: embed the text blob, add the record, return the id.
EmbedAndAdd(t) ==
    /\ pc[t] = "embed"
    /\ collection' = CollectionAdd(collection, frame[t].memory_id,
                                   embed_query(frame[t].text_blob), frame[t].metadata)
    /\ returned' = returned \cup {[id |-> frame[t].memory_id, text |-> frame[t].text_blob]}
    /\ out' = [op |-> "ingest", thread |-> t, ingestor |-> frame[t].ingestor,
               payload |-> frame[t].payload, result |-> "memory_id",
               memory_id |-> frame[t].memory_id, text_blob |-> frame[t].text_blob]
    /\ pc' = [pc EXCEPT ![t] = "idle"]
    /\ frame' = [frame EXCEPT ![t] = NoFrame]
    /\ UNCHANGED <<middleware, vault, reader, callers, requests, graph, file, uuids, calls>>

\* A slip: the record is added with a placeholder vector before the embedding
\* is computed, and stays when embed_query raises.
EmbedFail_RecordLeft(t) ==
    /\ pc[t] = "embed"
    /\ collection' = CollectionAdd(collection, frame[t].memory_id, 0, frame[t].metadata)
    /\ out' = Raised(t, frame[t], "EmbeddingError")
    /\ pc' = [pc EXCEPT ![t] = "idle"]
    /\ frame' = [frame EXCEPT ![t] = NoFrame]
    /\ UNCHANGED <<middleware, vault, reader, callers, requests, graph, file, uuids, calls, returned>>

\* embed_query raises inside ingest: nothing catches it.
EmbedFail(t) ==
    /\ pc[t] = "embed"
    /\ out' = Raised(t, frame[t], "EmbeddingError")
    /\ pc' = [pc EXCEPT ![t] = "idle"]
    /\ frame' = [frame EXCEPT ![t] = NoFrame]
    /\ UNCHANGED <<middleware, vault, reader, callers, requests, graph, file, collection, uuids, calls, returned>>

\* A slip: the matches are returned last hit first.
Retrieve_Reversed(query, n_results) ==
    /\ LET query_embedding == embed_query(query)
       IN \E hits \in QueryHits(collection, query_embedding, n_results) :
             out' = [op |-> "retrieve", query |-> query, n_results |-> n_results,
                     error |-> FALSE, raised |-> FALSE, hits |-> hits,
                     matches |-> [i \in 1..Len(hits) |->
                                     Match(graph, collection, hits[Len(hits) + 1 - i],
                                           query_embedding)]]
    /\ UNCHANGED <<middleware, vault, reader, callers, requests, graph, file, collection, uuids, pc, frame, calls, returned>>

\* retrieve (lines 174-215) with a working embedding and vector store; hits
\* is results["ids"][0], as positions in the collection.
Retrieve(query, n_results) ==
    /\ LET query_embedding == embed_query(query)
       IN \E hits \in QueryHits(collection, query_embedding, n_results) :
             out' = [op |-> "retrieve", query |-> query, n_results |-> n_results,
                     error |-> FALSE, raised |-> FALSE, hits |-> hits,
                     matches |-> [i \in 1..Len(hits) |->
                                     Match(graph, collection, hits[i], query_embedding)]]
    /\ UNCHANGED <<middleware, vault, reader, callers, requests, graph, file, collection, uuids, pc, frame, calls, returned>>

\* A slip: retrieve without its try/except, as ingest is written: the
\* exception of embed_query or collection.query leaves retrieve.
RetrieveError_Uncaught(query, n_results) ==
    /\ out' = [op |-> "retrieve", query |-> query, n_results |-> n_results,
               error |-> FALSE, raised |-> TRUE, matches |-> <<>>]
    /\ UNCHANGED <<middleware, vault, reader, callers, requests, graph, file, collection, uuids, pc, frame, calls, returned>>

\* retrieve when embed_query or collection.query raises: the except branch
\* returns {"error": ...}.
RetrieveError(query, n_results) ==
    /\ out' = [op |-> "retrieve", query |-> query, n_results |-> n_results,
               error |-> TRUE, raised |-> FALSE, matches |-> <<>>]
    /\ UNCHANGED <<middleware, vault, reader, callers, requests, graph, file, collection, uuids, pc, frame, calls, returned>>

\* A slip: the lookup reads the node through a defaulting accessor, which
\* creates the node it was asked for.
LookupNode_Touch(node_id) ==
    /\ out' = [op |-> "lookup", node_id |-> node_id, view |-> lookup_node_tool(graph, node_id)]
    /\ graph' = IF has_node(graph, node_id) THEN graph ELSE add_node(graph, node_id, NoAttrs)
    /\ UNCHANGED <<middleware, vault, reader, callers, requests, file, collection, uuids, pc, frame, calls, returned>>

\* The lookup_node tool.
LookupNode(node_id) ==
    /\ out' = [op |-> "lookup", node_id |-> node_id, view |-> lookup_node_tool(graph, node_id)]
    /\ UNCHANGED <<middleware, vault, reader, callers, requests, graph, file, collection, uuids, pc, frame, calls, returned>>

\* _load_graph, as run by the constructor of another engine opened on the
\* same store: no file gives an empty graph, a whole file its graph, and a
\* file that is not whole a parse error.
_load_graph ==
    CASE file.st = "absent" -> [result |-> "graph", graph |-> EmptyGraph]
      [] file.st = "whole"  -> [result |-> "graph", graph |-> file.graph]
      [] OTHER              -> [result |-> "raise", graph |-> EmptyGraph]

ReadFile ==
    /\ out' = [op |-> "load", loaded |-> _load_graph]
    /\ UNCHANGED <<middleware, vault, reader, callers, requests, graph, file, collection, uuids, pc, frame, calls, returned>>

\* The constructor of a second engine on the same store (lines 73-81): it
\* shares the Chroma collection and loads its own copy of the graph from the
\* file; a file that does not parse makes the constructor raise.
ReaderOpen ==
    /\ ~reader.open
    /\ IF _load_graph.result = "graph"
       THEN /\ reader' = [open |-> TRUE, graph |-> _load_graph.graph]
            /\ out' = NoOut
       ELSE /\ reader' = reader
            /\ out' = [op |-> "load", loaded |-> _load_graph]
    /\ UNCHANGED <<middleware, vault, callers, requests, graph, file, collection, uuids, pc, frame, calls, returned>>

\* retrieve on the second engine, with a working embedding and vector store:
\* the hits come from the shared collection, the context from its own graph.
ReaderRetrieve(query, n_results) ==
    /\ reader.open
    /\ LET query_embedding == embed_query(query)
       IN \E hits \in QueryHits(collection, query_embedding, n_results) :
             out' = [op |-> "reader_retrieve", query |-> query, n_results |-> n_results,
                     error |-> FALSE, raised |-> FALSE,
                     matches |-> [i \in 1..Len(hits) |->
                                     Match(reader.graph, collection, hits[i], query_embedding)]]
    /\ UNCHANGED <<middleware, vault, reader, callers, requests, graph, file, collection, uuids, pc, frame, calls,
                   returned>>

\* ingest on the second engine (lines 127-157), run from its start to its
\* return with a save and an embedding that succeed: it mutates the graph the
\* second engine holds, rewrites the shared file with that graph, and adds
\* its record to the shared collection.
ReaderIngest(req) ==
    /\ reader.open
    /\ calls < CallBudget
    /\ calls' = calls + 1
    /\ IF ~HasKey(ingestor_specs, req.ingestor)
       THEN /\ out' = [op |-> "reader_ingest", ingestor |-> req.ingestor,
                       payload |-> req.payload, result |-> "raise", exception |-> "ValueError"]
            /\ UNCHANGED <<reader, file, collection, uuids, returned>>
       ELSE LET spec == Lookup(ingestor_specs, req.ingestor)
                text_blob == _build_text(spec.text_fields, req.payload)
                metadata == _build_metadata(spec.metadata, req.payload)
                st == MutateGraph(spec, req.payload, reader.graph)
                memory_id == uuid4
            IN /\ reader' = [reader EXCEPT !.graph = st.graph]
               /\ IF st.raised
                  THEN /\ out' = [op |-> "reader_ingest", ingestor |-> req.ingestor,
                                  payload |-> req.payload, result |-> "raise",
                                  exception |-> "TypeError"]
                       /\ UNCHANGED <<file, collection, uuids, returned>>
                  ELSE /\ file' = WholeFile(st.graph)
                       /\ uuids' = uuids + 1
                       /\ IF text_blob = <<>>
                          THEN /\ out' = [op |-> "reader_ingest", ingestor |-> req.ingestor,
                                          payload |-> req.payload, result |-> "graph_only_entry"]
                               /\ UNCHANGED <<collection, returned>>
                          ELSE /\ collection' =
                                     CollectionAdd(collection, memory_id, embed_query(text_blob),
                                         [metadata EXCEPT
                                             !.graph_nodes = DumpsGraphNodes(st.aliases)])
                               /\ returned' = returned \cup {[id |-> memory_id, text |-> text_blob]}
                               /\ out' = [op |-> "reader_ingest", ingestor |-> req.ingestor,
                                          payload |-> req.payload, result |-> "memory_id",
                                          memory_id |-> memory_id]
    /\ UNCHANGED <<middleware, vault, callers, requests, graph, pc, frame>>

Next ==
    \/ \E t \in callers, req \in requests : IngestBegin(t, req)
    \/ \E t \in callers : SaveOpen(t)
    \/ \E t \in callers : SaveWrite(t)
    \/ \E t \in callers : SaveFail(t)
    \/ \E t \in callers : EmbedAndAdd(t)
    \/ \E t \in callers : EmbedFail(t)
    \/ \E q \in Queries, n \in NResults : Retrieve(q, n)
    \/ \E q \in Queries, n \in NResults : RetrieveError(q, n)
    \/ \E n \in LookupIds : LookupNode(n)
    \/ ReadFile

Spec == Init /\ [][Next]_vars

SpecConcurrent == InitConcurrent /\ [][Next]_vars

\* The requests of the writing engine while a second engine reads.
ReaderRequests ==
    { [ingestor |-> "api_doc", payload |-> PA],
      [ingestor |-> "api_doc", payload |-> PB],
      [ingestor |-> "link", payload |-> PL] }

\* One engine ingests; a second engine is opened on the same store at some
\* point and retrieves.
InitReader ==
    /\ Constructed
    /\ callers = {1}
    /\ requests = ReaderRequests

NextReader ==
    \/ \E t \in callers, req \in requests : IngestBegin(t, req)
    \/ \E t \in callers : SaveOpen(t)
    \/ \E t \in callers : SaveWrite(t)
    \/ \E t \in callers : SaveFail(t)
    \/ \E t \in callers : EmbedAndAdd(t)
    \/ \E t \in callers : EmbedFail(t)
    \/ ReaderOpen
    \/ \E q \in Queries, n \in NResults : ReaderRetrieve(q, n)

SpecReader == InitReader /\ [][NextReader]_vars

(***************************************************************************)
(* Two engines opened on the same store path and namespace (the modules    *)
(* kratos/tools/memory.py and kratos/initmem.py each construct one), both  *)
(* ingesting.                                                              *)
(***************************************************************************)
WriterRequests ==
    { [ingestor |-> "api_doc", payload |-> PA],
      [ingestor |-> "api_doc", payload |-> PB],
      [ingestor |-> "api_doc", payload |-> PE],
      [ingestor |-> "changelog", payload |-> PL],
      [ingestor |-> "link", payload |-> PF] }

InitWriters ==
    /\ Constructed
    /\ callers = {1}
    /\ requests = WriterRequests

NextWriters ==
    \/ \E t \in callers, req \in requests : IngestBegin(t, req)
    \/ \E t \in callers : SaveOpen(t)
    \/ \E t \in callers : SaveWrite(t)
    \/ \E t \in callers : SaveFail(t)
    \/ \E t \in callers : EmbedAndAdd(t)
    \/ \E t \in callers : EmbedFail(t)
    \/ ReaderOpen
    \/ \E req \in requests : ReaderIngest(req)

SpecWriters == InitWriters /\ [][NextWriters]_vars

(***************************************************************************)
(* One engine building a graph with edges of every kind: by alias, by key, *)
(* fanned out from a list, dropped for a missing endpoint, repeated, and   *)
(* relabelled; lookups in between.                                         *)
(***************************************************************************)
GraphRequests ==
    { [ingestor |-> "link", payload |-> PL],
      [ingestor |-> "link", payload |-> PR],
      [ingestor |-> "chain", payload |-> PC],
      [ingestor |-> "chain", payload |-> PFan],
      [ingestor |-> "chain", payload |-> PCol],
      [ingestor |-> "relate", payload |-> PL] }

\* The node ids looked up while the graph is built.
GraphLookupIds == { <<"a">>, <<"b">>, <<"x">> }

InitGraph ==
    /\ Constructed
    /\ callers = {1}
    /\ requests = GraphRequests

NextGraph ==
    \/ \E t \in callers, req \in requests : IngestBegin(t, req)
    \/ \E t \in callers : SaveOpen(t)
    \/ \E t \in callers : SaveWrite(t)
    \/ \E t \in callers : SaveFail(t)
    \/ \E n \in GraphLookupIds : LookupNode(n)

SpecGraph == InitGraph /\ [][NextGraph]_vars

(***************************************************************************)
(* One engine ingesting api_doc payloads whose two text fields resolve to  *)
(* strings, to a list, to a dict, to the empty string, or not at all.      *)
(***************************************************************************)
TextRequests ==
    { [ingestor |-> "api_doc", payload |-> PA],
      [ingestor |-> "api_doc", payload |-> PA2],
      [ingestor |-> "api_doc", payload |-> PE],
      [ingestor |-> "api_doc", payload |-> PL],
      [ingestor |-> "api_doc", payload |-> PDl],
      [ingestor |-> "api_doc", payload |-> PDm] }

InitText ==
    /\ Constructed
    /\ callers = {1}
    /\ requests = TextRequests

NextText ==
    \/ \E t \in callers, req \in requests : IngestBegin(t, req)
    \/ \E t \in callers : SaveOpen(t)
    \/ \E t \in callers : SaveWrite(t)
    \/ \E t \in callers : SaveFail(t)
    \/ \E t \in callers : EmbedAndAdd(t)
    \/ \E t \in callers : EmbedFail(t)

SpecText == InitText /\ [][NextText]_vars

(***************************************************************************)
(* The similarity conversion on its own: the distances of a query result   *)
(* with two hits, and the scores retrieve's loop gives them.               *)
(***************************************************************************)
\* The largest distance tried, in tenths (Chroma's cosine distance is
\* nominally within 0..2).
MaxDistance == 45

\* Distances in hundredths, on a grid of tenths, from just below 0 (rounding
\* in the index) to beyond 2.
Distances == {10 * k : k \in -2..MaxDistance}

\* similarity = self._distance_to_similarity(distance), hit by hit (lines 187-190).
Similarities(distances) ==
    [idx \in 1..Len(distances) |-> _distance_to_similarity(distances[idx])]

InitSimilarity ==
    /\ NewEngine
    /\ callers = {1}
    /\ requests = {}
    /\ \E d1, d2 \in Distances : out = [op |-> "query_result", distances |-> <<d1, d2>>]

ScoreHits ==
    /\ out.op = "query_result"
    /\ out' = [op |-> "similarities", distances |-> out.distances,
               scores |-> Similarities(out.distances)]
    /\ UNCHANGED <<middleware, vault, reader, callers, requests, graph, file, collection, uuids, pc, frame, calls,
                   returned>>

NextSimilarity == ScoreHits

SpecSimilarity == InitSimilarity /\ [][NextSimilarity]_vars

(***************************************************************************)
(* Dot-path extraction on its own: a payload and a path, and the value     *)
(* _extract_value returns for them.                                        *)
(***************************************************************************)
\* The longest path tried, in characters.
MaxPathLen == 5

PathChars == {"a", "b", "."}

\* None, the empty path, every path over the characters, and a path that is
\* not a string.
Paths ==
    {None, Lst(<< <<"a">> >>)}
        \cup {Str(p) : p \in UNION {[1..n -> PathChars] : n \in 0..MaxPathLen}}

\* Payloads: None, non-mappings, the empty mapping, nested mappings, a null
\* inside a mapping, and empty keys.
ExtractPayloads ==
    { None,
      Str(<<"x">>),
      Lst(<< <<"a">> >>),
      Map(<<>>),
      Map(<< <<<<"a">>, Str(<<"x">>)>> >>),
      Map(<< <<<<"a">>, Map(<< <<<<"b">>, Str(<<"y">>)>> >>)>> >>),
      Map(<< <<<<"a">>, None>>, <<<<"b">>, Map(<< <<<<"a">>, Lst(<< <<"x">> >>)>> >>)>> >>),
      Map(<< <<<<"a">>, Map(<< <<<<"b">>, Map(<< <<<<"a">>, Str(<<"v">>)>> >>)>> >>)>> >>),
      Map(<< <<<<>>, Map(<< <<<<>>, Str(<<"z">>)>> >>)>>,
             <<<<"a">>, Map(<< <<<<>>, Str(<<"w">>)>> >>)>> >>) }

InitExtract ==
    /\ NewEngine
    /\ callers = {1}
    /\ requests = {}
    /\ \E payload \in ExtractPayloads, path \in Paths :
           out = [op |-> "extract", payload |-> payload, path |-> path]

ExtractValue ==
    /\ out.op = "extract"
    /\ out' = [op |-> "extracted", payload |-> out.payload, path |-> out.path,
               value |-> _extract_value(out.payload, out.path)]
    /\ UNCHANGED <<middleware, vault, reader, callers, requests, graph, file, collection, uuids, pc, frame, calls,
                   returned>>

NextExtract == ExtractValue

SpecExtract == InitExtract /\ [][NextExtract]_vars

(***************************************************************************)
(* The vault on its own: write_file and read_file calls of one session's   *)
(* agent and of callers without a session.                                 *)
(***************************************************************************)
\* write_file and read_file calls made in one run.
MaxVaultCalls == 2

\* "/r/o", the same file written relative, its parent directory, and a
\* traversal attempt.
VaultPaths ==
    { <<"/", "r", "/", "o">>, <<"r", "/", "o">>, <<"/", "r">>, <<".", ".", "/", "r">> }

\* Plain text, text with a Windows line ending, and no text.
VaultContents == { <<"x">>, <<"x", "\r", "\n", "y">>, <<>> }

VaultNamespaces == { Str(<<"research">>), Str(<<"finance">>) }

VaultSessions == { None, Str(<<"s">>) }

InitVault ==
    /\ Constructed
    /\ callers = {1}
    /\ requests = {}

VaultWrite(file_path, content, namespace, session_id) ==
    /\ vault.calls < MaxVaultCalls
    /\ LET r == write_file(vault, file_path, content, namespace, session_id)
       IN /\ vault' = [r.vault EXCEPT !.calls = @ + 1]
          /\ out' = [op |-> "write_file", file_path |-> file_path, content |-> content,
                     namespace |-> namespace, session_id |-> session_id,
                     result |-> r.result, exception |-> r.exception, file_id |-> r.file_id]
    /\ UNCHANGED <<middleware, reader, callers, requests, graph, file, collection, uuids, pc, frame, calls,
                   returned>>

VaultRead(file_path, namespace, session_id) ==
    /\ vault.calls < MaxVaultCalls
    /\ LET r == read_file(vault, file_path, namespace, session_id)
       IN /\ vault' = [r.vault EXCEPT !.calls = @ + 1]
          /\ out' = [op |-> "read_file", file_path |-> file_path,
                     namespace |-> namespace, session_id |-> session_id,
                     result |-> r.result, exception |-> r.exception, content |-> r.content]
    /\ UNCHANGED <<middleware, reader, callers, requests, graph, file, collection, uuids, pc, frame, calls,
                   returned>>

NextVault ==
    \/ \E file_path \in VaultPaths, content \in VaultContents,
          namespace \in VaultNamespaces, session_id \in VaultSessions :
            VaultWrite(file_path, content, namespace, session_id)
    \/ \E file_path \in VaultPaths, namespace \in VaultNamespaces,
          session_id \in VaultSessions :
            VaultRead(file_path, namespace, session_id)

SpecVault == InitVault /\ [][NextVault]_vars

(***************************************************************************)
(* The middleware on its own: agent runs started on one instance with      *)
(* states that hold any of the keys.                                       *)
(***************************************************************************)
\* Agent runs started on one middleware instance.
MaxAgentRuns == 2

StateKeys ==
    {"namespace", "session_id", "files_created", "files_read", "total_bytes_written",
     "context_data_loc"}

\* The agent states: any keys, and under "session_id" None or "abc".
AgentStates ==
    {[keys |-> keys, session_id |-> sid] :
        keys \in SUBSET StateKeys, sid \in {None, Str(<<"abc">>)}}

InitMiddleware ==
    /\ Constructed
    /\ callers = {1}
    /\ requests = {}

BeforeAgent(state) ==
    /\ middleware.runs < MaxAgentRuns
    /\ "session_id" \notin state.keys => state.session_id = None
    /\ LET r == before_agent(middleware, vault, state)
       IN /\ middleware' = [r.middleware EXCEPT !.runs = @ + 1]
          /\ vault' = r.vault
          /\ out' = [op |-> "before_agent", state |-> state, result |-> r.result,
                     exception |-> r.exception, updates |-> r.updates]
    /\ UNCHANGED <<reader, callers, requests, graph, file, collection, uuids, pc, frame, calls,
                   returned>>

NextMiddleware == \E state \in AgentStates : BeforeAgent(state)

SpecMiddleware == InitMiddleware /\ [][NextMiddleware]_vars

(***************************************************************************)
(* Properties.                                                             *)
(***************************************************************************)
\* The node ids a vector record's graph_nodes metadata lists.
GraphNodesOf(record) == DictValues(LoadsGraphNodes(record.metadata.graph_nodes))

IngestRaised == out.op = "ingest" /\ out.result = "raise"

\* C1: after any sequence of ingest, retrieve and lookup calls on one engine,
\* failed ingest calls included, every node id listed in the graph_nodes
\* metadata of every vector record is a node of the engine's graph.
C1_GraphNodesExist ==
    \A i \in 1..Len(collection) :
        \A n \in GraphNodesOf(collection[i]) : has_node(graph, n)

\* A record that lists a node exists, and the last ingest call failed part-way.
C1_Witness ==
    /\ IngestRaised
    /\ \E i \in 1..Len(collection) : GraphNodesOf(collection[i]) # {}

\* C2: every vector index add is made by a call whose graph persist step has
\* already completed, and that persist wrote every node the new record lists.
C2_PersistBeforeAdd ==
    [][Len(collection') > Len(collection) =>
          \E t \in callers :
              /\ pc[t] = "embed"
              /\ frame[t].saved
              /\ collection'[Len(collection')].id = frame[t].memory_id
              /\ GraphNodesOf(collection'[Len(collection')]) \subseteq frame[t].persisted]_vars

\* A call stopped between its persist and its add, listing a node, while the
\* index already holds a record of an earlier call.
C2_Witness ==
    \E t \in callers :
        /\ pc[t] = "embed"
        /\ frame[t].graph_nodes # <<>>
        /\ Len(collection) >= 1

\* Between the start of its graph mutation and the end of its graph persist.
InGraphSection(t) == pc[t] \in {"save", "write"}

\* C3: no two ingest calls on the namespace are at the same time between the
\* start of their graph mutation and the end of their graph persist.
C3_IngestSerialized ==
    \A t1, t2 \in callers : t1 # t2 => ~(InGraphSection(t1) /\ InGraphSection(t2))

\* C4: whenever the graph file is read, during or after a persist step or
\* after an interrupted one, the reader gets a whole graph, never a partial
\* write.
C4_AtomicPersist == out.op = "load" => out.loaded.result = "graph"

\* The ingestor is registered in the config.
Registered(ingestor) == HasKey(ingestor_specs, ingestor)

\* The values the configured text fields of a registered ingestor resolve to.
ResolvedTextFields(ingestor, payload) ==
    LET fields == Lookup(ingestor_specs, ingestor).text_fields
    IN {i \in 1..Len(fields) : _extract_value(payload, fields[i]).k # "none"}

\* The last step was ingest returning a value to its caller.
IngestReturned == out.op = "ingest" /\ out.result # "raise"

KeyResolved(ingestor, payload) ==
    LET nodes == Lookup(ingestor_specs, ingestor).nodes
    IN {k \in 1..Len(nodes) : _extract_value(payload, nodes[k].key).k # "none"}

NodeKey(ingestor, payload, k) ==
    _extract_value(payload, Lookup(ingestor_specs, ingestor).nodes[k].key)

GraphOnlyStep(t) ==
    LET f == IF pc[t] = "idle" THEN frame'[t] ELSE frame[t]
    IN /\ pc'[t] # pc[t]
       /\ Registered(f.ingestor)
       /\ ResolvedTextFields(f.ingestor, f.payload) = {}

Matched(m) ==
    \E j \in 1..Len(out.matches) :
        out.matches[j].memory_id = m /\ out.matches[j].similarity_score >= 99

\* The records whose embedding is the one the query text embeds to.
SameEmbedding(query) ==
    {i \in 1..Len(collection) : collection[i].embedding = embed_query(query)}

\* Every ingested text that embeds to the query's vector is the query text.
OnlySameText(query) ==
    \A r \in returned : embed_query(r.text) = embed_query(query) => r.text = query

\* C7 as stated: with the default n_results of 1, a retrieve of the projected
\* text of an ingest that returned m has m among its matches, with similarity
\* at least 0.99, whatever else was ingested (here: no other text shares the
\* query's vector, so only ingests of the same text compete with m).
C7_Original ==
    (out.op = "retrieve" /\ ~out.error /\ out.n_results = 1 /\ OnlySameText(out.query))
    => \A r \in returned : r.text = out.query => Matched(r.id)

\* C7, amended: the same, for a retrieve whose n_results is at least the number
\* of records whose embedding is identical to the query's.
C7_RetrieveOwnText ==
    (/\ out.op = "retrieve"
     /\ ~out.error
     /\ out.n_results >= Cardinality(SameEmbedding(out.query)))
    => \A r \in returned : r.text = out.query => Matched(r.id)

\* A retrieve of the text of an earlier ingest, among other records.
C7_Witness ==
    /\ out.op = "retrieve"
    /\ ~out.error
    /\ out.n_results >= Cardinality(SameEmbedding(out.query))
    /\ \E r \in returned : r.text = out.query
    /\ Len(collection) >= 2

\* The NodeSpecs of the call that create or update node n: those with an
\* alias whose key resolves to the non-empty id n.
Upserting(spec, payload, n) ==
    {k \in 1..Len(spec.nodes) :
        /\ spec.nodes[k].id # ""
        /\ _extract_value(payload, spec.nodes[k].key) = Str(n)
        /\ n # <<>>}

\* NodeSpec ns resolves attribute a for this payload ("type" always is).
AttrResolved(ns, payload, a) ==
    \/ a = "type"
    \/ \E i \in 1..Len(ns.attributes) :
           ns.attributes[i][1] = a /\ _extract_value(payload, ns.attributes[i][2]).k # "none"

\* The value NodeSpec ns gives attribute a.
AttrValue(ns, payload, a) ==
    IF a = "type" THEN Str(<<IF ns.has_type THEN ns.type ELSE ns.id>>)
    ELSE LET i == CHOOSE i \in 1..Len(ns.attributes) : ns.attributes[i][1] = a
         IN _extract_value(payload, ns.attributes[i][2])

\* The attribute names any NodeSpec of the config declares, and "type".
AttrNames ==
    {"type"} \cup
    UNION {UNION {{ingestor_specs[i][2].nodes[k].attributes[j][1] :
                      j \in 1..Len(ingestor_specs[i][2].nodes[k].attributes)} :
                  k \in 1..Len(ingestor_specs[i][2].nodes)} :
           i \in 1..Len(ingestor_specs)}

\* C8: an ingest whose NodeSpec key resolves to an id already in the graph adds
\* no node for it (the node set grows by exactly the ids that were not there),
\* and the node's attributes afterwards are the merge: an attribute resolved
\* in the call has the call's value, any other attribute keeps its previous
\* value, and no attribute is lost or invented.
C8_UpsertMerges ==
    [][\A t \in callers :
          (pc[t] = "idle" /\ pc'[t] = "save") =>
             LET spec == Lookup(ingestor_specs, frame'[t].ingestor)
                 payload == frame'[t].payload
                 touched == {n \in DOMAIN graph'.nodes : Upserting(spec, payload, n) # {}}
             IN /\ DOMAIN graph'.nodes = DOMAIN graph.nodes \cup touched
                /\ \A n \in touched \cap DOMAIN graph.nodes :
                      LET old == graph.nodes[n]
                          new == graph'.nodes[n]
                          by(a) == {k \in Upserting(spec, payload, n) :
                                       AttrResolved(spec.nodes[k], payload, a)}
                      IN /\ DOMAIN new = DOMAIN old \cup {a \in AttrNames : by(a) # {}}
                         /\ \A a \in DOMAIN new :
                               IF by(a) = {} THEN new[a] = old[a]
                               ELSE LET k == CHOOSE k \in by(a) : \A j \in by(a) : j <= k
                                    IN new[a] = AttrValue(spec.nodes[k], payload, a)]_vars

\* Node "a", ingested with a description, was ingested again without one and
\* still has it.
C8_Witness ==
    \E t \in callers :
        /\ pc[t] = "save"
        /\ frame[t].payload = PA2
        /\ has_node(graph, <<"a">>)
        /\ "desc" \in DOMAIN graph.nodes[<<"a">>]

\* C9: edges between the same ordered pair with different labels coexist:
\* creating (s, t, L2) leaves an edge (s, t, L1) created before in the graph,
\* so that a lookup of s lists both; no step removes an edge the graph holds.
C9_LabelsCoexist ==
    [][\A i \in 1..Len(graph.edges) :
          \E j \in 1..Len(graph'.edges) : graph'.edges[j] = graph.edges[i]]_vars

\* C10: ingest called with an ingestor name that is not registered returns a
\* structured error value; it does not raise.
C10_UnknownIngestorReturned ==
    (out.op = "ingest" /\ ~Registered(out.ingestor)) => out.result = "error"

\* C11: when the embedding capability throws while ingest is processing a
\* text-bearing payload, the failure is caught and returned as a structured
\* error value: every step that ends an ingest call after its embedding stage
\* returns a value (a memory id or an error), it does not raise.
C11_EmbeddingFailureReturned ==
    [][\A t \in callers :
          (pc[t] = "embed" /\ pc'[t] = "idle") =>
              /\ out'.op = "ingest"
              /\ out'.result \in {"memory_id", "error"}]_vars

\* The ids of the vector records.
RecordIds == {collection[i].id : i \in 1..Len(collection)}

RecordOf(memory_id) ==
    collection[CHOOSE i \in 1..Len(collection) : collection[i].id = memory_id]

\* The aliases with an entry in a graph context.
ContextAliases(graph_context) == {graph_context[i][1] : i \in 1..Len(graph_context)}

\* The aliases a record lists whose node the second engine's graph holds.
AliasesHeld(record) ==
    LET refs == LoadsGraphNodes(record.metadata.graph_nodes)
    IN {refs[i][1] : i \in {k \in 1..Len(refs) : has_node(reader.graph, refs[k][2])}}

\* The aliases a record lists whose node the second engine's graph lacks.
AliasesBehind(record) ==
    LET refs == LoadsGraphNodes(record.metadata.graph_nodes)
    IN {refs[i][1] : i \in {k \in 1..Len(refs) : ~has_node(reader.graph, refs[k][2])}}

\* C13: retrieve tolerates a graph that is behind the vector index: when a
\* hit's graph_nodes names a node id absent from the graph the reader holds,
\* retrieve still returns that hit as a match (as many matches as the index
\* gives hits), with exactly the aliases of absent nodes left out of its
\* graph_context, and returns no error.
C13_ToleratesStaleGraph ==
    out.op = "reader_retrieve" =>
        /\ ~out.error
        /\ ~out.raised
        /\ Len(out.matches) = Min(out.n_results, Len(collection))
        /\ \A j \in 1..Len(out.matches) :
               /\ out.matches[j].memory_id \in RecordIds
               /\ ContextAliases(out.matches[j].graph_context)
                      = AliasesHeld(RecordOf(out.matches[j].memory_id))

\* The second engine, opened before an ingest of the first, retrieved a record
\* that lists a node its own graph does not hold, next to one it does hold.
C13_Witness ==
    /\ out.op = "reader_retrieve"
    /\ \E j \in 1..Len(out.matches) :
           AliasesBehind(RecordOf(out.matches[j].memory_id)) # {}
    /\ \E j \in 1..Len(out.matches) :
           AliasesHeld(RecordOf(out.matches[j].memory_id)) # {}

\* C14: retrieve and lookup are read-only: a retrieve (returning matches or an
\* error) or a lookup (of a node that exists or not) leaves the in-memory
\* graph (nodes, attributes, edges), the persisted graph file and the vector
\* records as they were.
C14_ReadsAreReadOnly ==
    [][out'.op \in {"retrieve", "lookup"} =>
          /\ graph' = graph
          /\ file' = file
          /\ collection' = collection]_vars

\* A node id that does not exist was looked up on an engine with nodes, a
\* saved graph file and vector records.
C14_Witness ==
    /\ out.op = "lookup"
    /\ ~has_node(graph, out.node_id)
    /\ DOMAIN graph.nodes # {}
    /\ file.st = "whole"
    /\ Len(collection) >= 1

\* C15: the similarity of every match equals clamp(1 - distance/2, 0, 1) of
\* the hit's distance and lies in [0, 1]: distance 0 (or below) gives 1,
\* distance 1 gives 0.5, every distance of 2 or more gives 0, in between
\* 2 * similarity = 2 - distance, and similarity never increases as distance
\* increases.  (Distances and similarities in hundredths.)
C15_SimilarityClamped ==
    out.op = "similarities" =>
        /\ \A i \in 1..Len(out.scores) :
               LET d == out.distances[i]
                   sim == out.scores[i]
               IN /\ sim \in 0..100
                  /\ d <= 0 => sim = 100
                  /\ d = 100 => sim = 50
                  /\ d >= 200 => sim = 0
                  /\ (0 < d /\ d < 200) => 2 * sim = 200 - d
        /\ \A i, j \in 1..Len(out.scores) :
               out.distances[i] <= out.distances[j] => out.scores[i] >= out.scores[j]

\* A hit at distance 1 and a hit at distance 4 were scored 0.5 and 0.
C15_Witness ==
    /\ out.op = "similarities"
    /\ out.distances = <<100, 400>>
    /\ out.scores = <<50, 0>>

\* C16: a lookup of a node id that is not in the graph returns a NotFound
\* value naming that id (and nothing else) and does not raise.
C16_LookupNotFound ==
    (out.op = "lookup" /\ ~has_node(graph, out.node_id)) =>
        /\ DOMAIN out.view = {"error", "node_id"}
        /\ out.view.error = "Node not found"
        /\ out.view.node_id = out.node_id

\* Node "c" was looked up in a graph that holds other nodes and an edge, and
\* was not found.
C16_Witness ==
    /\ out.op = "lookup"
    /\ out.node_id = <<"c">>
    /\ graph.edges # <<>>
    /\ out.view.error = "Node not found"

\* What lies at the end of a path's segments: not found as soon as the value
\* reached is not a mapping or lacks the segment, else the value reached.
RECURSIVE ValueAt(_, _)
ValueAt(v, segments) ==
    IF segments = <<>> THEN [found |-> TRUE, value |-> v]
    ELSE IF v.k # "map" THEN [found |-> FALSE, value |-> None]
    ELSE IF ~HasKey(v.m, Head(segments)) THEN [found |-> FALSE, value |-> None]
    ELSE ValueAt(DictGet(v.m, Head(segments)), Tail(segments))

\* C17: dot-path extraction is total: for every payload (an empty mapping, a
\* non-mapping and None included) and every path (None, empty and non-string
\* included) it returns a value or None; None for a null or empty path, None
\* as soon as a segment is missing or the value reached before the last
\* segment is not a mapping, and otherwise the value at the path.
C17_ExtractTotal ==
    out.op = "extracted" =>
        /\ out.value.k \in {"none", "str", "list", "map"}
        /\ IF out.path.k # "str" \/ out.path.s = <<>>
           THEN out.value = None
           ELSE LET at == ValueAt(out.payload, Split(out.path.s))
                IN out.value = IF at.found THEN at.value ELSE None

\* The path "a.b" was extracted from {"a": "x"}: the value reached before the
\* last segment is not a mapping, and the result is None.
C17_Witness ==
    /\ out.op = "extracted"
    /\ out.payload = Map(<< <<<<"a">>, Str(<<"x">>)>> >>)
    /\ out.path = Str(<<"a", ".", "b">>)
    /\ out.value = None

\* The components of a path as the caller wrote it.
PathComponents(file_path) ==
    SelectSeq(SplitOn(file_path, "/", <<>>), LAMBDA c : c # <<>>)

\* Where the claim places a file: sessions/<session_id>/<path> when a session
\* id is given, persistent/<namespace>/<path> otherwise.
ExpectedLocation(file_path, namespace, session_id) ==
    IF session_id # None
    THEN <<<<"sessions">>, session_id.s>> \o PathComponents(file_path)
    ELSE <<<<"persistent">>, namespace.s>> \o PathComponents(file_path)

\* The last call was a write_file that returned.
Wrote == out.op = "write_file" /\ out.result = "file_id"

\* This step is a read_file with the arguments of the write_file before it.
ReadsBack ==
    /\ out'.op = "read_file"
    /\ out'.file_path = out.file_path
    /\ out'.namespace = out.namespace
    /\ out'.session_id = out.session_id

\* After a write_file that returned: the content is on disk at the place the
\* claim names, and the file id identifies a files row with the call's path
\* (in its normalised form), namespace, session id and size.
StoredAsClaimed ==
    LET loc == ExpectedLocation(out.file_path, out.namespace, out.session_id)
    IN /\ loc \in DOMAIN vault.disk
       /\ vault.disk[loc] = out.content
       /\ out.file_id \in DOMAIN vault.files
       /\ vault.files[out.file_id].file_path = _validate_path(out.file_path).path
       /\ vault.files[out.file_id].namespace = out.namespace
       /\ vault.files[out.file_id].session_id = out.session_id
       /\ vault.files[out.file_id].size_bytes = Len(out.content)

\* C18: FileVault write then read round-trips: after write_file(path, content,
\* namespace, session_id) the content is stored under
\* sessions/<session_id>/<path> when a session id is given and under
\* persistent/<namespace>/<path> otherwise, the returned file id identifies a
\* metadata record with that path, namespace, session id and size, and a
\* read_file with the same path, namespace and session id returns exactly the
\* content.
C18_WriteReadRoundTrip ==
    [][Wrote =>
          /\ StoredAsClaimed
          /\ ReadsBack => (out'.result = "content" /\ out'.content = out.content)]_vars

\* C19: before_agent returns None (no state updates) whenever the agent state
\* already holds namespace, a non-null session_id, files_created, files_read
\* and total_bytes_written.
C19_PopulatedStateNoUpdates ==
    (/\ out.op = "before_agent"
     /\ {"namespace", "session_id", "files_created", "files_read", "total_bytes_written"}
            \subseteq out.state.keys
     /\ out.state.session_id # None)
    => out.result = "none"

\* The call ingest(req.ingestor, req.payload) of caller t takes its first step:
\* it goes on to the save, or it raises.
IngestStarts(t, req) ==
    /\ pc[t] = "idle"
    /\ calls' = calls + 1
    /\ \/ /\ pc'[t] = "save"
          /\ frame'[t].ingestor = req.ingestor
          /\ frame'[t].payload = req.payload
       \/ /\ pc'[t] = "idle"
          /\ out' = Raised(t, req, out'.exception)

\* The ids the NodeSpecs of the call create or update.
NodeSpecIds(req, ids) ==
    IF ~HasKey(ingestor_specs, req.ingestor) THEN {}
    ELSE {n \in ids : Upserting(Lookup(ingestor_specs, req.ingestor), req.payload, n) # {}}

\* Edge e is new in the step, or the step gave it its label.
EdgeWritten(e) == ~\E i \in 1..Len(graph.edges) : graph.edges[i] = e

\* C20: both endpoints of every edge are nodes that were present when the
\* edge was created: an ingest call adds no node but those its NodeSpecs
\* resolve, every edge it creates joins nodes that were in the graph before
\* the call or that its NodeSpecs created, and an id resolved through
\* source_key or target_key that is not a node is the endpoint of no edge.
C20_EdgesJoinPresentNodes ==
    [][/\ graph' # graph => \E t \in callers : \E req \in requests : IngestStarts(t, req)
       /\ \A t \in callers : \A req \in requests :
             IngestStarts(t, req) =>
                LET present == DOMAIN graph.nodes \cup NodeSpecIds(req, DOMAIN graph'.nodes)
                IN /\ DOMAIN graph'.nodes \subseteq present
                   /\ \A j \in 1..Len(graph'.edges) :
                         EdgeWritten(graph'.edges[j]) =>
                            {graph'.edges[j].s, graph'.edges[j].t} \subseteq present
       /\ \A j \in 1..Len(graph'.edges) :
             {graph'.edges[j].s, graph'.edges[j].t} \subseteq DOMAIN graph'.nodes]_vars

\* A call whose source_key lists the nodes "a" and the id "c", which is not a
\* node, has created the edge from "a" and none from "c".
C20_Witness ==
    \E t \in callers :
        /\ pc[t] = "save"
        /\ frame[t].ingestor = "relate"
        /\ frame[t].payload = PF
        /\ ~has_node(graph, <<"c">>)
        /\ \E j \in 1..Len(graph.edges) :
              graph.edges[j] = [s |-> <<"a">>, t |-> <<"b">>, label |-> "RELATED_TO"]

\* The id the alias holds in this call: that of the last NodeSpec with this
\* alias whose key resolves to a non-empty id.
AliasIds(spec, payload, alias, ids) ==
    LET by(n) == {k \in Upserting(spec, payload, n) : spec.nodes[k].id = alias}
        all == UNION {by(n) : n \in ids}
    IN {n \in ids : by(n) # {} /\ \A k \in all : \E j \in by(n) : k <= j}

\* The ids a dot path resolves to, a list giving its items.
KeyIds(payload, key) ==
    LET val == _extract_value(payload, key)
    IN IF val.k = "list" THEN {val.l[i] : i \in 1..Len(val.l)}
       ELSE IF val.k = "str" /\ val.s # <<>> THEN {val.s}
       ELSE {}

\* The id set of one endpoint of an EdgeSpec: the alias of this call, or the
\* key-resolved ids that are nodes of the graph (present).
EndpointSet(endpoint, spec, payload, present) ==
    IF endpoint.kind = "alias" THEN AliasIds(spec, payload, endpoint.alias, present)
    ELSE IF endpoint.kind = "key" THEN KeyIds(payload, endpoint.key) \cap present
    ELSE {}

LabelOf(edge_spec) == IF edge_spec.has_label THEN edge_spec.label ELSE "RELATED_TO"

\* The graph of the call when it reaches its k-th EdgeSpec (k - 1 evaluated).
GraphAt(spec, payload, G, k) ==
    LET st == NodeLoop(spec.nodes, payload, [graph |-> G, aliases |-> <<>>, raised |-> FALSE])
    IN EdgeLoop(SubSeq(spec.edges, 1, k - 1), payload, st.graph, st.aliases)

\* Evaluating an EdgeSpec with source set S and target set T took the graph
\* from G1 to G2: one edge with the label per pair, and no other new edge.
FannedOut(G1, G2, S, T, label) ==
    /\ DOMAIN G2.nodes = DOMAIN G1.nodes
    /\ \A s \in S : \A t \in T :
          /\ Cardinality({j \in 1..Len(G2.edges) : G2.edges[j].s = s /\ G2.edges[j].t = t}) = 1
          /\ \E j \in 1..Len(G2.edges) : G2.edges[j] = [s |-> s, t |-> t, label |-> label]
    /\ \A j \in 1..Len(G2.edges) :
          \/ \E i \in 1..Len(G1.edges) : G1.edges[i] = G2.edges[j]
          \/ /\ G2.edges[j].s \in S
             /\ G2.edges[j].t \in T
             /\ G2.edges[j].label = label

Without(seq, k) == SubSeq(seq, 1, k - 1) \o SubSeq(seq, k + 1, Len(seq))

\* The k-th EdgeSpec of the call names an alias that the call did not populate.
AliasUnpopulated(spec, payload, k, ids) ==
    \E endpoint \in {spec.edges[k].source, spec.edges[k].target} :
        /\ endpoint.kind = "alias"
        /\ AliasIds(spec, payload, endpoint.alias, ids) = {}

\* C22: an EdgeSpec whose source or target alias the call did not populate is
\* dropped without raising: the call goes on to its save, that EdgeSpec
\* leaves the edges as they were (the call leaves the graph it would leave
\* without that EdgeSpec, and the same edges when it drops them all), and the
\* call's NodeSpecs and other EdgeSpecs are applied.
C22_UnpopulatedAliasDropped ==
    [][\A t \in callers : \A req \in requests :
          (IngestStarts(t, req) /\ HasKey(ingestor_specs, req.ingestor)) =>
             LET spec == Lookup(ingestor_specs, req.ingestor)
                 ids == DOMAIN graph'.nodes
                 present == DOMAIN graph.nodes \cup NodeSpecIds(req, ids)
                 dropped == {k \in 1..Len(spec.edges) :
                                AliasUnpopulated(spec, req.payload, k, ids)}
                 S(k) == EndpointSet(spec.edges[k].source, spec, req.payload, present)
                 T(k) == EndpointSet(spec.edges[k].target, spec, req.payload, present)
             IN dropped # {} =>
                   /\ pc'[t] = "save"
                   /\ DOMAIN graph'.nodes = present
                   /\ \A k \in dropped :
                         /\ GraphAt(spec, req.payload, graph, k + 1).edges
                               = GraphAt(spec, req.payload, graph, k).edges
                         /\ graph' = MutateGraph([spec EXCEPT !.edges = Without(spec.edges, k)],
                                                 req.payload, graph).graph
                   /\ dropped = 1..Len(spec.edges) => graph'.edges = graph.edges
                   /\ \A k \in (1..Len(spec.edges)) \ dropped :
                         \A s \in S(k) : \A u \in T(k) : has_edge(graph', s, u)]_vars

\* A chain call without a source: its first EdgeSpec is dropped, its node "x"
\* is there, and its second EdgeSpec has joined the listed nodes to "x".
C22_Witness ==
    \E t \in callers :
        /\ pc[t] = "save"
        /\ frame[t].ingestor = "chain"
        /\ _extract_value(frame[t].payload, Str(<<"s">>)) = None
        /\ has_node(graph, <<"x">>)
        /\ has_edge(graph, <<"a">>, <<"x">>)
        /\ \A j \in 1..Len(graph.edges) : graph.edges[j].t = <<"x">> => graph.edges[j].label # "USES"

\* The (source, target, label) triples the EdgeSpecs of the call produce.
Triples(spec, payload, present) ==
    UNION {{[s |-> s, t |-> u, label |-> LabelOf(spec.edges[k])] :
               <<s, u>> \in EndpointSet(spec.edges[k].source, spec, payload, present)
                            \X EndpointSet(spec.edges[k].target, spec, payload, present)} :
           k \in 1..Len(spec.edges)}

EdgeSet(G) == {G.edges[j] : j \in 1..Len(G.edges)}

\* The triples the call that starts in this step produces.
Produced(req) ==
    Triples(Lookup(ingestor_specs, req.ingestor), req.payload,
            DOMAIN graph.nodes \cup NodeSpecIds(req, DOMAIN graph'.nodes))

\* Caller t starts an ingest of req that produces edges, all of them already
\* in the graph.
AddsDuplicates(t, req) ==
    /\ IngestStarts(t, req)
    /\ pc'[t] = "save"
    /\ Produced(req) # {}
    /\ Produced(req) \subseteq EdgeSet(graph)

\* The endpoints of the triples the call produces.
DuplicateEnds(req) == {e.s : e \in Produced(req)} \cup {e.t : e \in Produced(req)}

\* The neighbour lists of lookup without their type fields.
Untyped(list, id(_)) == [i \in 1..Len(list) |-> [label |-> list[i].label, node |-> id(list[i])]]

TargetId(entry) == entry.target_id

SourceId(entry) == entry.source_id

\* C23 as stated: ingesting a payload that produces an edge already in the
\* graph leaves the node set, the edge set and the outgoing and incoming lists
\* that lookup returns for both endpoints exactly as they were.
C23_Original ==
    [][\A t \in callers : \A req \in requests :
          AddsDuplicates(t, req) =>
             /\ DOMAIN graph'.nodes = DOMAIN graph.nodes
             /\ graph'.edges = graph.edges
             /\ \A n \in DuplicateEnds(req) :
                   /\ lookup_node_tool(graph', n).outgoing = lookup_node_tool(graph, n).outgoing
                   /\ lookup_node_tool(graph', n).incoming = lookup_node_tool(graph, n).incoming]_vars

\* C23, amended: ingesting a payload whose EdgeSpecs produce only edges
\* already in the graph with the same label leaves the edges exactly as they
\* were and adds no node but those its NodeSpecs resolve; the outgoing and
\* incoming lists lookup returns for both endpoints keep their entries (label
\* and neighbour id, in order), whose type fields are the types the nodes
\* have after the NodeSpecs' upsert, and are exactly as they were when the
\* call changes no node attribute.
C23_DuplicateEdgeIdempotent ==
    [][\A t \in callers : \A req \in requests :
          AddsDuplicates(t, req) =>
             /\ DOMAIN graph'.nodes = DOMAIN graph.nodes \cup NodeSpecIds(req, DOMAIN graph'.nodes)
             /\ graph'.edges = graph.edges
             /\ \A n \in DuplicateEnds(req) :
                   LET old == lookup_node_tool(graph, n)
                       new == lookup_node_tool(graph', n)
                   IN /\ Untyped(new.outgoing, TargetId) = Untyped(old.outgoing, TargetId)
                      /\ Untyped(new.incoming, SourceId) = Untyped(old.incoming, SourceId)
                      /\ \A i \in 1..Len(new.outgoing) :
                            new.outgoing[i].target_type = TypeOf(graph', new.outgoing[i].target_id)
                      /\ \A i \in 1..Len(new.incoming) :
                            new.incoming[i].source_type = TypeOf(graph', new.incoming[i].source_id)
                      /\ graph'.nodes = graph.nodes =>
                            (new.outgoing = old.outgoing /\ new.incoming = old.incoming)]_vars

\* The edge from "a" to "b" was created before the one from "b" to "a", and a
\* third call has produced the first one again.
C23_Witness ==
    \E t \in callers :
        /\ pc[t] = "save"
        /\ frame[t].ingestor = "link"
        /\ frame[t].payload = PL
        /\ calls = 3
        /\ graph.edges = << [s |-> <<"a">>, t |-> <<"b">>, label |-> "USES"],
                            [s |-> <<"b">>, t |-> <<"a">>, label |-> "USES"] >>

\* The node view lookup returns: attributes and the two neighbour lists.
NodeView(view) ==
    [attributes |-> view.attributes, outgoing |-> view.outgoing, incoming |-> view.incoming]

\* C24: lookup and retrieval expansion agree: the graph_context entry that
\* retrieve builds for an alias of a hit equals the view (attributes,
\* outgoing and incoming lists) that lookup returns for the node id the hit's
\* graph_nodes gives that alias, in the same graph state.
C24_LookupAgreesWithContext ==
    (out.op = "retrieve" /\ ~out.error) =>
        \A j \in 1..Len(out.matches) :
            LET refs == LoadsGraphNodes(out.matches[j].metadata.graph_nodes)
                context == out.matches[j].graph_context
            IN \A i \in 1..Len(context) :
                  LET view == lookup_node_tool(graph, Lookup(refs, context[i][1]))
                  IN /\ HasKey(refs, context[i][1])
                     /\ view.error = ""
                     /\ NodeView(view) = context[i][2]

\* retrieve returned a hit whose node has a neighbour on each side of an edge:
\* one entry with an outgoing edge and one with an incoming edge.
C24_Witness ==
    /\ out.op = "retrieve"
    /\ ~out.error
    /\ \E j \in 1..Len(out.matches) : \E i \in 1..Len(out.matches[j].graph_context) :
           out.matches[j].graph_context[i][2].outgoing # <<>>
    /\ \E j \in 1..Len(out.matches) : \E i \in 1..Len(out.matches[j].graph_context) :
           out.matches[j].graph_context[i][2].incoming # <<>>

\* The edges of the graph that leave n, and those that enter it.
EdgesFrom(n) == {j \in 1..Len(graph.edges) : graph.edges[j].s = n}

EdgesInto(n) == {j \in 1..Len(graph.edges) : graph.edges[j].t = n}

\* The list has exactly one entry per edge of the set, the entry that
\* Entry(edge) describes.
OnePerEdge(list, edges, Entry(_)) ==
    /\ Len(list) = Cardinality(edges)
    /\ \A j \in edges :
          Cardinality({i \in 1..Len(list) : list[i] = Entry(graph.edges[j])}) = 1
    /\ \A i \in 1..Len(list) : \E j \in edges : list[i] = Entry(graph.edges[j])

OutgoingEntry(e) == [label |-> e.label, target_id |-> e.t, target_type |-> TypeOf(graph, e.t)]

IncomingEntry(e) == [label |-> e.label, source_id |-> e.s, source_type |-> TypeOf(graph, e.s)]

\* C25: for a node n of the graph, lookup(n) returns an outgoing list with
\* exactly one entry (label, target id, target type) per edge whose source is
\* n and an incoming list with exactly one entry (label, source id, source
\* type) per edge whose target is n; so t is in the outgoing list of s with
\* label L exactly when s is in the incoming list of t with label L.
C25_LookupListsEdges ==
    (out.op = "lookup" /\ has_node(graph, out.node_id)) =>
        /\ out.view.error = ""
        /\ OnePerEdge(out.view.outgoing, EdgesFrom(out.node_id), OutgoingEntry)
        /\ OnePerEdge(out.view.incoming, EdgesInto(out.node_id), IncomingEntry)
        /\ \A m \in DOMAIN graph.nodes : \A label \in {"USES", "RELATED_TO", "HAS_VARIANT"} :
              /\ (\E i \in 1..Len(out.view.outgoing) :
                      out.view.outgoing[i].target_id = m /\ out.view.outgoing[i].label = label)
                 <=> (\E i \in 1..Len(lookup_node_tool(graph, m).incoming) :
                         /\ lookup_node_tool(graph, m).incoming[i].source_id = out.node_id
                         /\ lookup_node_tool(graph, m).incoming[i].label = label)
              /\ (\E i \in 1..Len(out.view.incoming) :
                      out.view.incoming[i].source_id = m /\ out.view.incoming[i].label = label)
                 <=> (\E i \in 1..Len(lookup_node_tool(graph, m).outgoing) :
                         /\ lookup_node_tool(graph, m).outgoing[i].target_id = out.node_id
                         /\ lookup_node_tool(graph, m).outgoing[i].label = label)

\* A lookup of a node with edges in both directions and a neighbour that has
\* only an edge towards it.
C25_Witness ==
    /\ out.op = "lookup"
    /\ has_node(graph, out.node_id)
    /\ Len(out.view.outgoing) >= 2
    /\ Len(out.view.incoming) >= 1
    /\ \E i \in 1..Len(out.view.outgoing) :
           ~has_edge(graph, out.view.outgoing[i].target_id, out.node_id)

\* C26: retrieve returns one match per hit of the vector index, in the order
\* the index returned the hits and at most n_results of them: the i-th match
\* is the record of the i-th hit, and no hit is dropped, repeated or moved.
C26_MatchesFollowHits ==
    (out.op = "retrieve" /\ ~out.error /\ ~out.raised) =>
        /\ out.hits \in QueryHits(collection, embed_query(out.query), out.n_results)
        /\ Len(out.matches) = Len(out.hits)
        /\ Len(out.matches) <= out.n_results
        /\ \A i \in 1..Len(out.matches) :
              /\ out.matches[i].memory_id = collection[out.hits[i]].id
              /\ out.matches[i].metadata = collection[out.hits[i]].metadata
              /\ out.matches[i].similarity_score
                    = _distance_to_similarity(Distance(collection[out.hits[i]].embedding,
                                                       embed_query(out.query)))
        /\ \A i, j \in 1..Len(out.matches) :
              i # j => out.matches[i].memory_id # out.matches[j].memory_id

\* retrieve returned two matches, the nearer record first, from an index that
\* holds more records than were asked for.
C26_Witness ==
    /\ out.op = "retrieve"
    /\ ~out.error
    /\ out.n_results = 2
    /\ Len(collection) = 3
    /\ Len(out.matches) = 2
    /\ out.matches[1].similarity_score > out.matches[2].similarity_score

\* The text fields of the list that resolve to a value other than None.
ResolvingFields(fields, payload) ==
    SelectSeq(fields, LAMBDA f : _extract_value(payload, f) # None)

\* str(value), and json.dumps(value) for a dict or a list.
Stringified(value) == IF value.k = "str" THEN value.s ELSE JsonDumps(value)

\* The strings with a newline before each but the first, in order.
RECURSIVE Lines(_, _)
Lines(fields, payload) ==
    IF fields = <<>> THEN <<>>
    ELSE Lines(SubSeq(fields, 1, Len(fields) - 1), payload)
            \o (IF Len(fields) > 1 THEN <<"\n">> ELSE <<>>)
            \o Stringified(_extract_value(payload, fields[Len(fields)]))

\* The save of caller t's call ends in this step without raising.
SaveReturns(t) ==
    /\ pc[t] = "write"
    /\ pc'[t] # "write"
    /\ ~(out'.op = "ingest" /\ out'.result = "raise")

Quiescent == \A t \in callers : pc[t] = "idle"

\* C28: with two engines open on the same store path and namespace, after
\* ingest calls of both have completed, the persisted graph file holds every
\* node that the graph_nodes of any record of the shared index refers to.
C28_SharedStoreKeepsNodes ==
    (Quiescent /\ file.st = "whole") =>
        \A i \in 1..Len(collection) :
            GraphNodesOf(collection[i]) \subseteq DOMAIN file.graph.nodes

\* The embedding of caller t's call fails in this step.
EmbeddingFails(t) ==
    /\ pc[t] = "embed"
    /\ pc'[t] = "idle"
    /\ out'.op = "ingest"
    /\ out'.result = "raise"

\* The nodes and edges of the call are in graph G.
CallApplied(req, G) ==
    LET spec == Lookup(ingestor_specs, req.ingestor)
    IN /\ NodeSpecIds(req, DOMAIN graph.nodes \cup DOMAIN G.nodes) \subseteq DOMAIN G.nodes
       /\ \A e \in Triples(spec, req.payload, DOMAIN graph.nodes) : has_edge(G, e.s, e.t)

\* C29: when the embedding call fails during the ingest of a text-bearing
\* payload, the vector index is left exactly as it was, and the nodes and
\* edges of the call stay applied in the graph and persisted in the file; an
\* identical ingest that follows adds no node, and an ingest whose embedding
\* succeeds adds exactly one vector record.
C29_EmbeddingFailureLeavesOrphan ==
    [][\A t \in callers :
          /\ EmbeddingFails(t) =>
                /\ frame[t].text_blob # <<>>
                /\ collection' = collection
                /\ graph' = graph
                /\ file' = file
                /\ file.st = "whole"
                /\ CallApplied(frame[t], graph)
                /\ CallApplied(frame[t], file.graph)
          /\ \A req \in requests :
                (IngestStarts(t, req) /\ out = Raised(t, req, "EmbeddingError")) =>
                   /\ pc'[t] = "save"
                   /\ DOMAIN graph'.nodes = DOMAIN graph.nodes
          /\ (pc[t] = "embed" /\ pc'[t] = "idle" /\ out'.result # "raise") =>
                /\ Len(collection') = Len(collection) + 1
                /\ SubSeq(collection', 1, Len(collection)) = collection
                /\ collection'[Len(collection')].id = frame[t].memory_id
                /\ frame[t].memory_id \notin RecordIds]_vars

\* The embedding of a call that created node "b" and the edge from "a" to it
\* has just failed: the index holds the one record of the call before, and
\* the file holds the node and the edge.
C29_Witness ==
    /\ out = Raised(1, [ingestor |-> "api_doc", payload |-> PB], "EmbeddingError")
    /\ Len(collection) = 1
    /\ file.st = "whole"
    /\ has_node(file.graph, <<"b">>)
    /\ has_edge(file.graph, <<"a">>, <<"b">>)

\* What read_file returns to its caller: the content, or the exception.
Returned(r) == [result |-> r.result, exception |-> r.exception, content |-> r.content]

\* The metadata records of a session, and the files stored for it.
SessionRecords(V, session_id) ==
    {id \in DOMAIN V.files : V.files[id].session_id = Str(session_id)}

SessionFiles(V, session_id) ==
    {loc \in DOMAIN V.disk : Len(loc) >= 2 /\ loc[1] = <<"sessions">> /\ loc[2] = session_id}

\* C30: FileVault files are isolated by namespace and session: a write_file
\* under (namespace A, session S, path P) does not change what read_file
\* returns for (namespace B, session S, path P) with B other than A, and a
\* session has as many metadata records as it has stored files.
C30_NamespaceSessionIsolated ==
    [][out'.op = "write_file" =>
          /\ \A B \in VaultNamespaces \ {out'.namespace} :
                Returned(read_file(vault', out'.file_path, B, out'.session_id))
                   = Returned(read_file(vault, out'.file_path, B, out'.session_id))
          /\ \A S \in {x.s : x \in VaultSessions \ {None}} :
                Cardinality(SessionRecords(vault', S)) = Cardinality(SessionFiles(vault', S))]_vars

====
